---- MODULE Spec2Model ----
(***************************************************************************)
(* Model of the Researcher API backend (src/backend/main.py): the          *)
(* hypothesis validation pipeline behind POST /research and                *)
(* POST /research/stream, its web evidence retriever (openai_web_search),  *)
(* the hypothesis generator (generate_hypotheses) and the quality gate.    *)
(*                                                                         *)
(* Strings of the program are modelled by what the code reads of them:     *)
(* a URL by its host (a sequence of labels, as written) and a path tag,    *)
(* an exception by the kind its message puts it in, an LLM reply by the    *)
(* mapping the parser gets out of it.                                      *)
(***************************************************************************)
EXTENDS Integers, Sequences, FiniteSets, TLC

VARIABLES
    \* ---- openai_web_search (one invocation) ----
    ws_pc,            \* "call" | "returned" | "raised" | "off"
    attempt,          \* loop variable of `for attempt in range(max_retries + 1)`
    use_temperature,  \* local use_temperature
    tool_calls,       \* number of client.responses.create calls made
    waits,            \* the time.sleep arguments, in order
    ws_error,         \* kind of the exception that left the function
    resp,             \* output items of the response, <<>> while there is none
    max_sources,      \* parameter max_sources
    ts_param,         \* parameter trusted_sources (NoList = None)
    ws_result,        \* the returned list
    \* ---- one run of /research or /research/stream ----
    pc,               \* where the run is
    entry,            \* "research" | "stream"
    question,         \* what the two classifier tests see in req.question
    provider,         \* req.provider or DEFAULT_PROVIDER
    req_trusted_sources, \* req.trusted_sources (NoList = None)
    parsed,           \* what parse_question returned, as far as the run reads it
    max_per_category, \* req.max_hypotheses_per_category or 4
    competitors,      \* COMPETITOR_DB.get(parsed["brand"], [])
    id_scheme,        \* how the generation LLM numbers its hypotheses
    hypotheses,       \* the mapping generate_hypotheses builds and returns
    yielded,          \* per category, how many hypotheses the LLM output held (after [:n])
    pre_filter,       \* hypotheses as they stood when the relevance filter started
    remove_ids,       \* the set the relevance filter got from its LLM call
    tasks,            \* (hyp, cat) pairs still to process, the current one first
    r1,               \* process_one: the accepted evidence list
    validation,       \* process_one: the accepted validation result
    judge,            \* process_one: the judge's answer in the latest pass, "none" if not asked
    second_pass_used, \* process_one: local second_pass_used
    queries,          \* process_one: the queries it has passed to openai_web_search, in order
    judged,           \* process_one: its validate_hypothesis calls: the pass, the results passed
    item,             \* what process_one returned for the latest hypothesis
    validated,        \* the findings per category
    gate_before,      \* validated as it stood when the quality gate started
    response,         \* the final payload / ResearchResponse, NoResponse before
    \* ---- the run's metrics, and the calls really made ----
    web_searches,     \* run metrics' web_searches (stream) / web_searches_total (research)
    llm_calls,        \* run metrics' llm_calls
    searches_issued,  \* openai_web_search invocations
    llm_issued,       \* requests sent to an LLM provider
    \* ---- process-wide state ----
    registry,         \* _trusted_sources
    min_verified_pct, \* _app_config["minVerifiedSourcePct"]
    \* ---- what a run puts out ----
    events,           \* the SSE events the streaming run has yielded, in order
    verdicts,         \* the verdict of each processed hypothesis, in order
    run_log,          \* RUN_LOG.append calls
    run_events,       \* _emit_run_event calls
    llm_errors,       \* kinds of the exceptions the run's LLM calls raised
    \* ---- concurrent streaming runs and their metrics ----
    m_pc,             \* per run: "idle" | "running" | "done"
    run_metrics,      \* per run: the run_metrics dict of event_gen
    fallback_metrics, \* _fallback_metrics: the run whose dict it names, or "None"
    issued,           \* per run: the calls the run really issued, per metric
    \* ---- PUT /sources, POST /sources/reset and a concurrent _score_source ----
    lists,            \* the list objects, by identity
    reg_obj,          \* the object _trusted_sources names
    w_pc,             \* update_sources: "idle" | "validate" | "updated" | "rejected"
    w_obj,            \* update_sources: the object new_sources names
    w_i,              \* update_sources: entries validated so far
    reg_before,       \* the registry as it stood when the latest PUT began
    published,        \* every list _trusted_sources has named, as it stood then
    rd_pc,            \* _score_source: "idle" | "loop" | "done"
    rd_obj,           \* _score_source: the object `sources` names
    rd_seen,          \* _score_source: the entries its loop has read
    \* ---- the same request run again ----
    canned,           \* the canned LLM and search responses
    run_no,           \* 1 for the first run, 2 for the re-run
    first_run,        \* what the first run produced
    \* ---- one call of a helper function on its own ----
    call_pc,          \* "off" | "ready" | "returned" | "again"
    call_args,        \* the arguments of the call
    call_rets         \* the values returned so far, in order

ws_vars == <<ws_pc, attempt, use_temperature, tool_calls, waits, ws_error,
             resp, max_sources, ts_param, ws_result>>

req_vars == <<entry, question, provider, req_trusted_sources>>

gen_vars == <<max_per_category, competitors, id_scheme, hypotheses, yielded, pre_filter,
              remove_ids>>

proc_vars == <<tasks, r1, validation, judge, second_pass_used, queries, judged, item>>

count_vars == <<web_searches, llm_calls, searches_issued, llm_issued>>

global_vars == <<registry, min_verified_pct>>

out_vars == <<events, verdicts, run_log, run_events, llm_errors>>

metric_vars == <<m_pc, run_metrics, fallback_metrics, issued>>

reg_vars == <<lists, reg_obj, w_pc, w_obj, w_i, reg_before, published, rd_pc, rd_obj, rd_seen>>

rerun_vars == <<canned, run_no, first_run>>

call_vars == <<call_pc, call_args, call_rets>>

\* What no step of a single run touches.
aux_vars == <<metric_vars, reg_vars, rerun_vars, call_vars>>

vars == <<ws_vars, pc, req_vars, parsed, gen_vars, proc_vars, validated, gate_before,
          response, count_vars, out_vars, global_vars, aux_vars>>

\* Everything but the state of one openai_web_search invocation.
run_vars == <<pc, req_vars, parsed, gen_vars, proc_vars, validated, gate_before,
              response, count_vars, out_vars>>

----------------------------------------------------------------------------
(* Generic helpers *)

Range(s) == {s[i] : i \in 1..Len(s)}

SeqsUpTo(S, n) == UNION {[1..k -> S] : k \in 0..n}

Prefix(s, n) == IF Len(s) <= n THEN s ELSE SubSeq(s, 1, n)

----------------------------------------------------------------------------
(* Bounds of the model *)

\* URLs cited by one output item of a search response.
MaxItemUrls == 1

\* Largest max_hypotheses_per_category the generator is run with (the API allows 1..10).
MaxCap == 3

\* Findings per category when the quality gate starts.
MaxFindings == 2

----------------------------------------------------------------------------
(* URLs, domains, the trusted-source registry *)

\* An optional list argument: None, or a list (possibly empty).
NoList == [given |-> FALSE, list |-> <<>>]
SomeList(l) == [given |-> TRUE, list |-> l]

\* A URL: the host as written in it and a tag for the rest of the string.
Url(h, p) == [host |-> h, path |-> p]
EmptyUrl == Url(<<>>, "")

Lower(label) ==
    CASE label = "WWW" -> "www"
      [] label = "Facebook" -> "facebook"
      [] label = "Reuters" -> "reuters"
      [] OTHER -> label

LowerHost(h) == [i \in 1..Len(h) |-> Lower(h[i])]

\* urlparse(url).hostname: the host, lowercased.
hostname(url) == LowerHost(url.host)

\* domain.endswith("." + d), label by label
EndsWithDot(domain, d) ==
    /\ Len(domain) > Len(d)
    /\ SubSeq(domain, Len(domain) - Len(d) + 1, Len(domain)) = d

get_domain(url) ==
    LET host == hostname(url)
    IN IF Len(host) > 1 /\ host[1] = "www" THEN Tail(host) ELSE host

SOCIAL_MEDIA_DOMAINS ==
    << <<"twitter", "com">>, <<"x", "com">>, <<"tiktok", "com">>, <<"instagram", "com">>,
       <<"facebook", "com">>, <<"fb", "com">>, <<"reddit", "com">>, <<"threads", "net">>,
       <<"linkedin", "com">>, <<"pinterest", "com">>, <<"snapchat", "com">>,
       <<"youtube", "com">>, <<"youtu", "be">> >>

is_social_media_exact(url) ==
    \E i \in 1..Len(SOCIAL_MEDIA_DOMAINS) : get_domain(url) = SOCIAL_MEDIA_DOMAINS[i]

is_social_media(url) ==
    LET domain == get_domain(url)
    IN \E i \in 1..Len(SOCIAL_MEDIA_DOMAINS) :
          \/ domain = SOCIAL_MEDIA_DOMAINS[i]
          \/ EndsWithDot(domain, SOCIAL_MEDIA_DOMAINS[i])

\* A registry entry; names are kept as one-label sequences so that the
\* source_name of an unmatched URL (its domain) has the same type.
Entry(d, n, sc, t) == [domain |-> d, name |-> <<n>>, trust_score |-> sc, tier |-> t]

\* Two of the default entries, one of each tier.
DEFAULT_TRUSTED_SOURCES ==
    << Entry(<<"reuters", "com">>, "Reuters", 10, "trusted"),
       Entry(<<"bbc", "com">>, "BBC", 8, "reputable") >>

\* A caller's own list (ResearchRequest.trusted_sources).
CustomSources == << Entry(<<"example", "com">>, "Example", 5, "custom") >>

UnverifiedScore == 3

\* DEFAULT_CONFIG["minVerifiedSourcePct"]
DEFAULT_MIN_VERIFIED_PCT == 25

\* The least max_hypotheses_per_category a request may carry (ge=1).
MIN_MAX_HYPOTHESES == 1

\* src.get(key, default)
get(src, key, default) == IF key \in DOMAIN src THEN src[key] ELSE default

\* src.get("trust_score", 5)
DEFAULT_GET_SCORE == 5

\* The entry the loop of _score_source returns on: the first hit.
FirstOf(hits) == CHOOSE j \in hits : \A k \in hits : j <= k

LastOf(hits) == CHOOSE j \in hits : \A k \in hits : j >= k

MatchedEntry(hits) == FirstOf(hits)

score_source(url, trusted_sources, reg) ==
    LET sources == IF trusted_sources.given /\ trusted_sources.list # <<>>
                   THEN trusted_sources.list ELSE reg   \* `trusted_sources or _trusted_sources`
        domain == get_domain(url)
        hits == {i \in 1..Len(sources) :
                    \/ domain = LowerHost(sources[i].domain)
                    \/ EndsWithDot(domain, LowerHost(sources[i].domain))}
    IN IF hits # {}
       THEN LET src == sources[MatchedEntry(hits)]
            IN [trust_score |-> get(src, "trust_score", DEFAULT_GET_SCORE),
                tier |-> get(src, "tier", "unknown"),
                source_name |-> get(src, "name", domain), is_trusted |-> TRUE]
       ELSE [trust_score |-> UnverifiedScore, tier |-> "unverified",
             source_name |-> domain, is_trusted |-> FALSE]

----------------------------------------------------------------------------
(* openai_web_search: normalising the response *)

\* Output items of a response, as far as the function reads them.
SearchCallItem(urls) == [type |-> "web_search_call", text |-> FALSE, urls |-> urls]
MessageItem(text, urls) == [type |-> "message", text |-> text, urls |-> urls]

RawSource(url) == [title |-> "t", url |-> url]

\* First pass over d["output"]: structured sources are appended as they come,
\* url_citation annotations only when their URL is not there yet.
RECURSIVE AppendAll(_, _)
AppendAll(acc, urls) ==
    IF urls = <<>> THEN acc
    ELSE AppendAll(IF Head(urls) # EmptyUrl THEN Append(acc, RawSource(Head(urls))) ELSE acc,
                   Tail(urls))

RECURSIVE AppendNew(_, _)
AppendNew(acc, urls) ==
    IF urls = <<>> THEN acc
    ELSE AppendNew(IF Head(urls) # EmptyUrl /\ \A i \in 1..Len(acc) : acc[i].url # Head(urls)
                   THEN Append(acc, RawSource(Head(urls))) ELSE acc,
                   Tail(urls))

RECURSIVE CollectSources(_, _)
CollectSources(items, acc) ==
    IF items = <<>> THEN acc
    ELSE CollectSources(Tail(items),
            IF Head(items).type = "web_search_call" THEN AppendAll(acc, Head(items).urls)
            ELSE AppendNew(acc, Head(items).urls))

HasMessageText(items) ==
    \E i \in 1..Len(items) : items[i].type = "message" /\ items[i].text

RECURSIVE DropSocial(_)
DropSocial(srcs) ==
    IF srcs = <<>> THEN <<>>
    ELSE IF is_social_media(Head(srcs).url) THEN DropSocial(Tail(srcs))
         ELSE <<Head(srcs)>> \o DropSocial(Tail(srcs))

Scored(s, trusted_sources, reg) ==
    LET info == score_source(s.url, trusted_sources, reg)
    IN [title |-> s.title, url |-> s.url, trust_score |-> info.trust_score,
        tier |-> info.tier, source_name |-> info.source_name,
        is_trusted |-> info.is_trusted]

ScoreAll(srcs, trusted_sources, reg) ==
    [i \in 1..Len(srcs) |-> Scored(srcs[i], trusted_sources, reg)]

RECURSIVE InsertBeforeTies(_, _)
InsertBeforeTies(sorted, s) ==
    IF sorted = <<>> THEN <<s>>
    ELSE IF Head(sorted).trust_score > s.trust_score
         THEN <<Head(sorted)>> \o InsertBeforeTies(Tail(sorted), s)
         ELSE <<s>> \o sorted

\* list.sort(key=trust_score, reverse=True): stable, highest score first.
RECURSIVE InsertDesc(_, _)
InsertDesc(sorted, s) ==
    IF sorted = <<>> THEN <<s>>
    ELSE IF Head(sorted).trust_score >= s.trust_score
         THEN <<Head(sorted)>> \o InsertDesc(Tail(sorted), s)
         ELSE <<s>> \o sorted

RECURSIVE SortDesc(_)
SortDesc(srcs) ==
    IF srcs = <<>> THEN <<>>
    ELSE InsertDesc(SortDesc(SubSeq(srcs, 1, Len(srcs) - 1)), srcs[Len(srcs)])

PseudoSource(sources) ==
    IF sources # <<>>
    THEN [title |-> "Web Search Analysis", url |-> sources[1].url,
          trust_score |-> sources[1].trust_score, tier |-> sources[1].tier,
          source_name |-> sources[1].source_name, is_trusted |-> sources[1].is_trusted]
    ELSE [title |-> "Web Search Analysis", url |-> EmptyUrl,
          trust_score |-> UnverifiedScore, tier |-> "unverified",
          source_name |-> <<>>, is_trusted |-> FALSE]

RECURSIVE OthersThan(_, _)
OthersThan(srcs, url) ==
    IF srcs = <<>> THEN <<>>
    ELSE IF Head(srcs).url # url THEN <<Head(srcs)>> \o OthersThan(Tail(srcs), url)
         ELSE OthersThan(Tail(srcs), url)

AssembleResult(items, maxs, trusted_sources, reg) ==
    LET sources == SortDesc(ScoreAll(DropSocial(CollectSources(items, <<>>)),
                                     trusted_sources, reg))
    IN IF HasMessageText(items)
       THEN <<PseudoSource(sources)>>
            \o OthersThan(Prefix(sources, maxs), PseudoSource(sources).url)
       ELSE Prefix(sources, maxs)

----------------------------------------------------------------------------
(* llm_generate *)

KnownProviders == {"anthropic", "openai"}

\* What a caller of llm_generate gets: the provider's reply (which may itself be
\* an API error), or, for any other provider name, the HTTPException(400) raised
\* before a request is made.
llm_generate(chosen_provider, reply, raised) ==
    IF chosen_provider \in KnownProviders THEN reply ELSE raised

\* Requests sent by one llm_generate call.
LlmIssued(chosen_provider) == IF chosen_provider \in KnownProviders THEN 1 ELSE 0

\* How a call that raised is told apart: a provider's billing/quota error
\* (BadRequestError, "credit balance is too low" / "insufficient_quota"), or
\* any other exception.
RaisedKinds == {"exception", "billing"}

\* What a reply adds to the kinds of exception the run's LLM calls raised.
LlmError(kind) == IF kind \in RaisedKinds THEN {kind} ELSE {}

----------------------------------------------------------------------------
(* Server-sent events *)

\* sse(event, data), as far as a client tells events apart; completed and
\* total are the counters of a hypothesis_result event.
Event(type) == [type |-> type, completed |-> 0, total |-> 0]

ResultEvent(completed, total) ==
    [type |-> "hypothesis_result", completed |-> completed, total |-> total]

\* yield sse(...): only event_gen yields.
Yield(e, evs, new) == IF e = "stream" THEN evs \o new ELSE evs

----------------------------------------------------------------------------
(* generate_hypotheses *)

Cats == <<"market", "brand", "competitive">>
CatSet == {"market", "brand", "competitive"}

EmptyByCategory == [c \in CatSet |-> <<>>]

CatLetter(c) == CASE c = "market" -> "M" [] c = "brand" -> "B" [] OTHER -> "C"

\* A hypothesis: its id, whether it has a statement, its two queries ("" when the
\* key is missing or empty) and where it came from.
Hypothesis(id, text, q, qb, origin) ==
    [id |-> id, hypothesis |-> text, search_query |-> q, search_query_broad |-> qb,
     origin |-> origin, is_dict |-> TRUE]

\* An element of the LLM's "hypotheses" list that is not a JSON object (a bare
\* string, say); id tells the elements apart, the program cannot read it.
NotADict(id) ==
    [id |-> id, hypothesis |-> "", search_query |-> "", search_query_broad |-> "",
     origin |-> "llm", is_dict |-> FALSE]

\* The shapes of hypothesis an LLM reply may hold.
Shapes == {"full", "no_broad", "same_broad", "text_only", "bare"}

\* The shapes of an element of the list, a non-object included.
ElementShapes == Shapes \cup {"not_a_dict"}

ShapedHypothesis(id, shape) ==
    CASE shape = "full"       -> Hypothesis(id, "h", "q", "qb", "llm")
      [] shape = "no_broad"   -> Hypothesis(id, "h", "q", "", "llm")
      [] shape = "same_broad" -> Hypothesis(id, "h", "q", "q", "llm")
      [] shape = "text_only"  -> Hypothesis(id, "h", "", "", "llm")
      [] shape = "not_a_dict" -> NotADict(id)
      [] OTHER                -> Hypothesis(id, "", "", "", "llm")

\* The id the LLM gives its i-th hypothesis of a category: the prompt's
\* M1/B1/C1 scheme, or one numbering reused in every category.
LlmId(c, i, scheme) == IF scheme = "prefixed" THEN <<CatLetter(c), i>> ELSE <<"H", i>>

\* A reply of an LLM call, after extract_json.
\*   exception:  llm_generate raised
\*   unparsable: extract_json gave {}
\*   missing:    a mapping without the expected key
\*   list:       the expected key holds a list of k items
Reply(kind, k, shape) == [kind |-> kind, k |-> k, shape |-> shape]
FailKinds == {"exception", "unparsable", "missing"}
BillingError == Reply("billing", 0, "full")

\* _run_metric_incr("llm_calls", 1) runs once the provider has answered, not when
\* llm_generate raised.
LlmCounted(reply) == IF reply.kind \in RaisedKinds THEN 0 ELSE 1

ReplyList(c, reply, scheme) ==
    IF reply.kind = "list"
    THEN [i \in 1..reply.k |-> ShapedHypothesis(LlmId(c, i, scheme), reply.shape)]
    ELSE <<>>

FixedFallback(c) ==
    [i \in 1..3 |-> Hypothesis(<<CatLetter(c), i>>, "h", "q", "qb", "fallback")]

CompetitorFallback(comps, n) ==
    IF comps # <<>>
    THEN [i \in 1..Len(Prefix(comps, n)) |-> Hypothesis(<<"C", i>>, "h", "q", "qb", "fallback")]
    ELSE <<Hypothesis(<<"C", 1>>, "h", "q", "qb", "fallback")>>

FallbackShrinking(c, comps, n) ==
    IF c = "competitive" THEN CompetitorFallback(comps, n - run_log)
    ELSE Prefix(FixedFallback(c), n - run_log)

FallbackUncapped(c, comps, n) ==
    IF c = "competitive" THEN CompetitorFallback(comps, n) ELSE FixedFallback(c)

Fallback(c, comps, n) ==
    IF c = "competitive" THEN CompetitorFallback(comps, n) ELSE Prefix(FixedFallback(c), n)

\* hypotheses[c] = data.get("hypotheses", [])[:n], then the fallback if that is empty.
CategoryHypotheses(c, reply, scheme, comps, n) ==
    LET got == Prefix(ReplyList(c, reply, scheme), n)
    IN IF got # <<>> THEN got ELSE Fallback(c, comps, n)

\* Competitors after auto-detection: only tried when none were supplied.
DetectedNames == <<"d1", "d2">>
DetectCompetitors(comps, reply) ==
    IF comps # <<>> THEN comps
    ELSE IF reply.kind = "list" THEN Prefix(Prefix(DetectedNames, reply.k), 6)
    ELSE <<>>

DropEvery(hyps, ids) == <<>>

RECURSIVE DropFlagged(_, _)
DropFlagged(hyps, ids) ==
    IF hyps = <<>> THEN <<>>
    ELSE IF Head(hyps).id \in ids THEN DropFlagged(Tail(hyps), ids)
         ELSE <<Head(hyps)>> \o DropFlagged(Tail(hyps), ids)

FilterCategoryNoSafeguard(original, ids) == DropFlagged(original, ids)

FilterCategory(original, ids) ==
    LET filtered == DropFlagged(original, ids)
    IN IF filtered = <<>> /\ original # <<>> THEN <<original[1]>> ELSE filtered

\* What the filter LLM call flags, relative to the hypotheses it was shown.
FlagPatterns == [CatSet -> {"none", "first", "all"}]

FlaggedIds(hyps, pattern) ==
    UNION { CASE pattern[c] = "none" -> {}
              [] pattern[c] = "first" -> {hyps[c][1].id}
              [] OTHER -> {hyps[c][i].id : i \in 1..Len(hyps[c])}
            : c \in CatSet }

FilterReply(kind, pattern) == [kind |-> kind, pattern |-> pattern]

RemoveIds(reply, before) ==
    IF reply.kind = "ids" THEN FlaggedIds(before, reply.pattern) ELSE {}

AfterFilter(before, ids) ==
    IF ids # {} THEN [c \in CatSet |-> FilterCategory(before[c], ids)] ELSE before

ListReplies(n, shapes) == {Reply("list", k, sh) : k \in 0..(n + 1), sh \in shapes}
FailReplies == {Reply(kind, 0, "full") : kind \in FailKinds}

FilterReplies ==
    {FilterReply("exception", [c \in CatSet |-> "none"]),
     FilterReply("unparsable", [c \in CatSet |-> "none"])}
    \cup {FilterReply("ids", p) : p \in FlagPatterns}

Raised == Reply("exception", 0, "full")
FilterRaised == FilterReply("exception", [c \in CatSet |-> "none"])

DetectReplies == {Raised, Reply("list", 0, "full"), Reply("list", 2, "full")}

\* What generate_hypotheses leaves alone.
gen_frame == <<ws_vars, req_vars, parsed, proc_vars, validated, gate_before, response,
               web_searches, searches_issued, events, verdicts, run_log, run_events,
               global_vars, aux_vars>>

\* Step 0: the industry call; its answer only feeds the later prompts.
GenIndustry(reply) ==
    /\ pc = "gen_industry"
    /\ llm_calls' = llm_calls + LlmCounted(llm_generate(provider, reply, Raised))
    /\ llm_issued' = llm_issued + LlmIssued(provider)
    /\ llm_errors' = llm_errors \cup LlmError(llm_generate(provider, reply, Raised).kind)
    /\ pc' = "gen_market"
    /\ UNCHANGED <<gen_vars, gen_frame>>

\* One category: the LLM call, the [:n] cut, the fallback.
GenCategory(c, reply, next) ==
    LET got == llm_generate(provider, reply, Raised)
    IN /\ pc = "gen_" \o c
       /\ hypotheses' = [hypotheses EXCEPT
                ![c] = CategoryHypotheses(c, got, id_scheme, competitors, max_per_category)]
       /\ yielded' = [yielded EXCEPT
                ![c] = Len(Prefix(ReplyList(c, got, id_scheme), max_per_category))]
       /\ llm_calls' = llm_calls + LlmCounted(got)
       /\ llm_issued' = llm_issued + LlmIssued(provider)
       /\ llm_errors' = llm_errors \cup LlmError(got.kind)
       /\ pc' = next
       /\ UNCHANGED <<max_per_category, competitors, id_scheme, pre_filter, remove_ids,
                      gen_frame>>

GenMarket(reply) == GenCategory("market", reply, "gen_brand")

GenBrand(reply) ==
    GenCategory("brand", reply, IF competitors = <<>> THEN "gen_detect" ELSE "gen_competitive")

\* Auto-detection of competitors, only when none were supplied.
GenDetect(reply) ==
    LET got == llm_generate(provider, reply, Raised)
    IN /\ pc = "gen_detect"
       /\ competitors' = DetectCompetitors(competitors, got)
       /\ llm_calls' = llm_calls + LlmCounted(got)
       /\ llm_issued' = llm_issued + LlmIssued(provider)
       /\ llm_errors' = llm_errors \cup LlmError(got.kind)
       /\ pc' = "gen_competitive"
       /\ UNCHANGED <<max_per_category, id_scheme, hypotheses, yielded, pre_filter,
                      remove_ids, gen_frame>>

GenCompetitive(reply) == GenCategory("competitive", reply, "gen_filter")

\* Every element of every category is a JSON object.
AllDicts(hyps) == \A c \in CatSet : \A i \in 1..Len(hyps[c]) : hyps[c][i].is_dict

\* The relevance filter and the return.  Listing the hypotheses (h.get("id"))
\* raises on an element that is not an object: the handler skips the filter and
\* no call is made.
GenFilter(reply) ==
    LET asks == AllDicts(hypotheses)
        got == llm_generate(provider, reply, FilterRaised)
        ids == IF asks THEN RemoveIds(got, hypotheses) ELSE {}
    IN /\ pc = "gen_filter"
       /\ pre_filter' = hypotheses
       /\ remove_ids' = ids
       /\ hypotheses' = AfterFilter(hypotheses, ids)
       /\ llm_calls' = llm_calls + (IF asks THEN LlmCounted(got) ELSE 0)
       /\ llm_issued' = llm_issued + (IF asks THEN LlmIssued(provider) ELSE 0)
       /\ llm_errors' = llm_errors \cup (IF asks THEN LlmError(got.kind) ELSE {})
       /\ pc' = "generated"
       /\ UNCHANGED <<max_per_category, competitors, id_scheme, yielded, gen_frame>>

----------------------------------------------------------------------------
(* openai_web_search: the retry loop *)

max_retries == 3
DEFAULT_MAX_SOURCES == 6

UrlPool ==
    { Url(<<"WWW", "Reuters", "com">>, "a"),
      Url(<<"blog", "example", "com">>, "a"),
      Url(<<"news", "example", "org">>, "a"),
      Url(<<"m", "facebook", "com">>, "a"),
      Url(<<"www", "Facebook", "com">>, "a") }

ItemUrls == SeqsUpTo(UrlPool, MaxItemUrls)

\* A search call whose sources list one URL twice, alone or after another URL
\* and followed by prose.
RepeatingResponses ==
    {<<SearchCallItem(<<u, u>>)>> : u \in UrlPool}
    \cup {<<SearchCallItem(<<u, v, v>>), MessageItem(TRUE, <<>>)>> : u, v \in UrlPool}

\* d["output"] of a response: a search call, a message, or both in either order.
Responses ==
    {<<>>}
    \cup RepeatingResponses
    \cup {<<SearchCallItem(a)>> : a \in ItemUrls}
    \cup {<<MessageItem(t, b)>> : t \in BOOLEAN, b \in ItemUrls}
    \cup {<<SearchCallItem(a), MessageItem(t, b)>> : a \in ItemUrls, t \in BOOLEAN, b \in ItemUrls}
    \cup {<<MessageItem(t, b), SearchCallItem(a)>> : a \in ItemUrls, t \in BOOLEAN, b \in ItemUrls}

WsInit ==
    /\ ws_pc = "call"
    /\ attempt = 0
    /\ use_temperature \in BOOLEAN      \* "gpt-5" not in search_model
    /\ tool_calls = 0
    /\ waits = <<>>
    /\ ws_error = "none"
    /\ resp = <<>>
    /\ max_sources \in {1, DEFAULT_MAX_SOURCES}
    /\ ts_param \in {NoList, SomeList(CustomSources)}
    /\ ws_result = <<>>

InLoop == ws_pc = "call" /\ attempt <= max_retries

\* client.responses.create returns: break out of the loop and build the result.
SearchToolReturns(items) ==
    /\ InLoop
    /\ tool_calls' = tool_calls + 1
    /\ resp' = items
    /\ ws_result' = AssembleResult(items, max_sources, ts_param, registry)
    /\ ws_pc' = "returned"
    /\ UNCHANGED <<attempt, use_temperature, waits, ws_error, max_sources, ts_param,
                   run_vars, global_vars, aux_vars>>

\* The call carried temperature and the model rejects it: `continue` without it.
\* The loop's range may end here, leaving resp None: the function returns [].
SearchTemperatureRejected ==
    /\ InLoop
    /\ use_temperature
    /\ tool_calls' = tool_calls + 1
    /\ use_temperature' = FALSE
    /\ attempt' = attempt + 1
    /\ ws_pc' = IF attempt = max_retries THEN "returned" ELSE "call"
    /\ UNCHANGED <<waits, ws_error, resp, max_sources, ts_param,
                   ws_result, run_vars, global_vars, aux_vars>>

\* A 429: sleep 2 ** (attempt + 1) and go round again, or re-raise on the last attempt.
SearchRateLimited ==
    /\ InLoop
    /\ tool_calls' = tool_calls + 1
    /\ IF attempt < max_retries
       THEN /\ waits' = Append(waits, 2 ^ (attempt + 1))
            /\ attempt' = attempt + 1
            /\ UNCHANGED <<ws_pc, ws_error>>
       ELSE /\ ws_pc' = "raised"
            /\ ws_error' = "rate_limit"
            /\ UNCHANGED <<waits, attempt>>
    /\ UNCHANGED <<use_temperature, resp, max_sources, ts_param,
                   ws_result, run_vars, global_vars, aux_vars>>

\* Any other exception is re-raised at once.
SearchOtherError ==
    /\ InLoop
    /\ tool_calls' = tool_calls + 1
    /\ ws_pc' = "raised"
    /\ ws_error' = "other"
    /\ UNCHANGED <<attempt, use_temperature, waits, resp, max_sources, ts_param,
                   ws_result, run_vars, global_vars, aux_vars>>

----------------------------------------------------------------------------
(* process_one: up to three search + judge passes for one hypothesis *)

\* An outcome of one openai_web_search call, as its caller sees it.
SearchOutcome(raised, items) == [raised |-> raised, items |-> items]

\* try: r = openai_web_search(...)   except Exception: r = []
search_results(outcome, trusted_sources, reg) ==
    IF outcome.raised THEN <<>>
    ELSE AssembleResult(outcome.items, DEFAULT_MAX_SOURCES, trusted_sources, reg)

\* The trusted_sources argument: only the streaming run passes the request's list.
SearchTrustedSources(e, ts) == IF e = "stream" THEN ts ELSE NoList

\* query = search_query, else the hypothesis text, else ""
Query(hyp) == IF hyp.search_query # "" THEN hyp.search_query ELSE hyp.hypothesis

\* A validation result: the judge's verdict and the pass that produced it.
NoValidation == [validated |-> FALSE, pass |-> 0]

\* The judge's answers: a JSON verdict, text without JSON, or llm_generate raising.
JudgeAnswers == {"true", "false", "unparsable", "exception", "billing"}

validate_hypothesis(answer, pass) == [validated |-> answer = "true", pass |-> pass]

AnswerCounted(answer) == IF answer \in RaisedKinds THEN 0 ELSE 1

JudgeAlways(r, v) == v

\* validation = {"validated": False}; if r1: validation = validate_hypothesis(...)
JudgeIfResults(r, v) == IF r # <<>> THEN v ELSE NoValidation

TakeLater(current, later, v) == later

\* if validation2.get("validated"): validation = validation2; r1 = r2
KeepUnlessValidated(current, later, v) == IF v.validated THEN later ELSE current

\* run_metrics["web_search_retries"], and "_web_search_retries" of research's
\* process_one: set to 0 and never incremented.
web_search_retries == 0

SetInstead(count, amount) == amount

\* ctx[key] = int(ctx.get(key, 0) or 0) + amount; research's process_one keeps
\* the same count in local_searches and the loop adds it to the run's total.
run_metric_incr(count, amount) == count + amount

\* A query string: the words of its text and the site: clause appended to it.
PlainQuery(text) == [text |-> <<text>>, sites |-> <<>>]

\* f"{query} ({site_clause})"
TargetedQuery(text, top_domains) == [text |-> <<text>>, sites |-> top_domains]

\* refine_query(original): " ".join([original, brand, tp, region, "retail"]).
\* Neither process_one calls it.
refine_query(original, brand) ==
    [text |-> <<original, brand, "UK", "retail">>, sites |-> <<>>]

\* A validate_hypothesis(hyp, r, ...) call.
JudgeCall(pass, r) == [pass |-> pass, results |-> Len(r)]

\* if query_broad and (not r1 or not validation.get("validated"))
BroadWhatever(query_broad, r, v) == query_broad # ""

NeedsBroad(query_broad, r, v) == query_broad # "" /\ (r = <<>> \/ ~v.validated)

\* top_trusted = not r1 or not r1[0].get("is_trusted", False)
top_any(r) == TRUE

top_trusted(r) == r = <<>> \/ ~r[1].is_trusted

\* What the passes of process_one leave alone.
pass_frame == <<ws_vars, req_vars, parsed, gen_vars, tasks, item, validated, gate_before,
                response, events, verdicts, run_log, run_events, global_vars, aux_vars>>

\* Pass 1: the specific query.
Pass1(outcome, answer) ==
    LET hyp == tasks[1].hyp
        r == search_results(outcome, SearchTrustedSources(entry, req_trusted_sources), registry)
        ans == llm_generate(provider, answer, "exception")
    IN /\ pc = "pass1"
       /\ hyp.is_dict
       /\ IF Query(hyp) = ""
          THEN /\ pc' = "collect"
               /\ UNCHANGED <<r1, validation, judge, count_vars, queries, judged>>
          ELSE /\ r1' = r
               /\ queries' = Append(queries, PlainQuery(Query(hyp)))
               /\ judged' = IF r # <<>> THEN Append(judged, JudgeCall(1, r)) ELSE judged
               /\ validation' = JudgeIfResults(r, validate_hypothesis(ans, 1))
               /\ judge' = IF r # <<>> THEN ans ELSE "none"
               /\ web_searches' = run_metric_incr(web_searches, 1)
               /\ searches_issued' = searches_issued + 1
               /\ llm_calls' = llm_calls + (IF r # <<>> THEN AnswerCounted(ans) ELSE 0)
               /\ llm_issued' = llm_issued + (IF r # <<>> THEN LlmIssued(provider) ELSE 0)
               /\ pc' = "pass2"
       /\ llm_errors' = llm_errors \cup LlmError(judge')
       /\ UNCHANGED <<second_pass_used, pass_frame>>

\* Pass 2: the broad query, when pass 1 found nothing or was not validated.
Pass2(outcome, answer) ==
    LET hyp == tasks[1].hyp
        r2 == search_results(outcome, SearchTrustedSources(entry, req_trusted_sources), registry)
        ans == llm_generate(provider, answer, "exception")
        validation2 == validate_hypothesis(ans, 2)
    IN /\ pc = "pass2"
       /\ IF NeedsBroad(hyp.search_query_broad, r1, validation)
          THEN /\ second_pass_used' = TRUE
               /\ web_searches' = run_metric_incr(web_searches, 1)
               /\ searches_issued' = searches_issued + 1
               /\ queries' = Append(queries, PlainQuery(hyp.search_query_broad))
               /\ IF r2 # <<>>
                  THEN /\ validation' = KeepUnlessValidated(validation, validation2, validation2)
                       /\ r1' = KeepUnlessValidated(r1, r2, validation2)
                       /\ judge' = ans
                       /\ judged' = Append(judged, JudgeCall(2, r2))
                       /\ llm_calls' = llm_calls + AnswerCounted(ans)
                       /\ llm_issued' = llm_issued + LlmIssued(provider)
                  ELSE /\ judge' = "none"
                       /\ UNCHANGED <<validation, r1, llm_calls, llm_issued, judged>>
          ELSE /\ judge' = "none"
               /\ UNCHANGED <<second_pass_used, r1, validation, count_vars, queries, judged>>
       /\ pc' = IF entry = "stream" THEN "pass3" ELSE "collect"
       /\ llm_errors' = llm_errors \cup LlmError(judge')
       /\ UNCHANGED pass_frame

RECURSIVE TrustedTierDomains(_)
TrustedTierDomains(sources_list) ==
    IF sources_list = <<>> THEN <<>>
    ELSE IF Head(sources_list).tier = "trusted"
         THEN <<Head(sources_list).domain>> \o TrustedTierDomains(Tail(sources_list))
         ELSE TrustedTierDomains(Tail(sources_list))

\* top_domains of pass 3: the first five "trusted"-tier domains of
\* `req.trusted_sources or _trusted_sources`.
TopDomains(trusted_sources, reg) ==
    Prefix(TrustedTierDomains(IF trusted_sources.given /\ trusted_sources.list # <<>>
                              THEN trusted_sources.list ELSE reg), 5)

\* Pass 3 (streaming run only): a search steered to trusted domains, when the
\* hypothesis is validated on a source that is not trusted.
Pass3(outcome, answer) ==
    LET r3 == search_results(outcome, SearchTrustedSources(entry, req_trusted_sources), registry)
        ans == llm_generate(provider, answer, "exception")
        validation3 == validate_hypothesis(ans, 3)
    IN /\ pc = "pass3"
       /\ IF /\ validation.validated
             /\ top_trusted(r1)
             /\ TopDomains(req_trusted_sources, registry) # <<>>
          THEN /\ web_searches' = run_metric_incr(web_searches, 1)
               /\ searches_issued' = searches_issued + 1
               /\ queries' = Append(queries, TargetedQuery(Query(tasks[1].hyp),
                                                TopDomains(req_trusted_sources, registry)))
               /\ IF r3 # <<>> /\ r3[1].is_trusted
                  THEN /\ validation' = KeepUnlessValidated(validation, validation3, validation3)
                       /\ r1' = KeepUnlessValidated(r1, r3, validation3)
                       /\ judge' = ans
                       /\ judged' = Append(judged, JudgeCall(3, r3))
                       /\ llm_calls' = llm_calls + AnswerCounted(ans)
                       /\ llm_issued' = llm_issued + LlmIssued(provider)
                  ELSE /\ judge' = "none"
                       /\ UNCHANGED <<validation, r1, llm_calls, llm_issued, judged>>
          ELSE /\ judge' = "none"
               /\ UNCHANGED <<r1, validation, count_vars, queries, judged>>
       /\ pc' = "collect"
       /\ llm_errors' = llm_errors \cup LlmError(judge')
       /\ UNCHANGED <<second_pass_used, pass_frame>>

\* `None` where a URL is expected.
NoUrl == Url(<<>>, "None")

\* source_trust: the lead source's trust metadata, {} when there is no source;
\* the reader's defaults stand in for the missing keys.
SourceTrust(r) ==
    IF r # <<>>
    THEN [given |-> TRUE, trust_score |-> r[1].trust_score, tier |-> r[1].tier,
          source_name |-> r[1].source_name, is_trusted |-> r[1].is_trusted]
    ELSE [given |-> FALSE, trust_score |-> UnverifiedScore, tier |-> "unverified",
          source_name |-> <<>>, is_trusted |-> FALSE]

\* What process_one returns.  The streaming variant always reports the verdict;
\* the other one returns an "item" only for `r1 and validation.get("validated")`.
ProcessItem(e, hyp, r, v, spu) ==
    IF Query(hyp) = ""
    THEN [validated |-> FALSE, error |-> "empty_query", hypothesis |-> hyp.hypothesis,
          source |-> NoUrl, result_count |-> 0, second_pass_used |-> FALSE,
          trust |-> SourceTrust(<<>>)]
    ELSE [validated |-> IF e = "stream" THEN v.validated ELSE r # <<>> /\ v.validated,
          error |-> "none", hypothesis |-> hyp.hypothesis,
          source |-> IF r # <<>> THEN r[1].url ELSE NoUrl,
          result_count |-> Len(r), second_pass_used |-> spu,
          trust |-> SourceTrust(r)]

\* The finding appended to validated[cat]; only the streaming run records the
\* source's trust metadata.  The "evidence" key is always there; what the judge
\* wrote is not followed, "e" stands for it.
Finding(e, it) ==
    IF e = "stream"
    THEN [status |-> "VALIDATED", hypothesis |-> it.hypothesis, evidence |-> "e",
          source |-> it.source,
          trust_score |-> it.trust.trust_score, tier |-> it.trust.tier,
          source_name |-> it.trust.source_name, is_trusted |-> it.trust.is_trusted]
    ELSE [status |-> "VALIDATED", hypothesis |-> it.hypothesis, evidence |-> "e",
          source |-> it.source,
          second_pass_used |-> it.second_pass_used]

\* Where the loop over the tasks goes after a task.
AfterTask(e, rest) ==
    IF rest # <<>> THEN "pass1" ELSE IF e = "stream" THEN "gate" ELSE "summary"

\* process_one returns and the loop over the tasks takes its result.
Collect ==
    LET hyp == tasks[1].hyp
        cat == tasks[1].cat
        it == ProcessItem(entry, hyp, r1, validation, second_pass_used)
    IN /\ pc = "collect"
       /\ item' = it
       /\ validated' = IF it.validated
                       THEN [validated EXCEPT ![cat] = Append(@, Finding(entry, it))]
                       ELSE validated
       /\ tasks' = Tail(tasks)
       /\ r1' = <<>>
       /\ validation' = NoValidation
       /\ judge' = "none"
       /\ second_pass_used' = FALSE
       /\ queries' = <<>>
       /\ judged' = <<>>
       /\ pc' = AfterTask(entry, Tail(tasks))
       /\ events' = Yield(entry, events,
                          <<ResultEvent(Len(verdicts) + 1, Len(verdicts) + Len(tasks))>>)
       /\ verdicts' = Append(verdicts, it.validated)
       /\ UNCHANGED <<ws_vars, req_vars, parsed, gen_vars, gate_before, response,
                      count_vars, run_log, run_events, llm_errors, global_vars, aux_vars>>

\* process_one on an element that is not an object: hyp.get raises
\* AttributeError.  The streaming loop's handler calls hyp.get again, so the
\* exception leaves event_gen and the stream breaks off; the other loop's
\* handler prints it and goes on to the next task.
ProcessRaises ==
    /\ pc = "pass1"
    /\ ~tasks[1].hyp.is_dict
    /\ IF entry = "stream"
       THEN /\ pc' = "failed"
            /\ response' = [kind |-> "aborted"]
            /\ UNCHANGED <<tasks, verdicts>>
       ELSE /\ pc' = AfterTask(entry, Tail(tasks))
            /\ tasks' = Tail(tasks)
            /\ verdicts' = Append(verdicts, FALSE)
            /\ UNCHANGED response
    /\ UNCHANGED <<ws_vars, req_vars, parsed, gen_vars, r1, validation, judge,
                   second_pass_used, queries, judged, item, validated, gate_before, count_vars,
                   events, run_log, run_events, llm_errors, global_vars, aux_vars>>

\* The tasks list: every hypothesis with its category, market first.
TasksOf(hyps, c) == [i \in 1..Len(hyps[c]) |-> [hyp |-> hyps[c][i], cat |-> c]]

BeginProcessing ==
    /\ pc = "generated"
    /\ tasks' = TasksOf(hypotheses, "market") \o TasksOf(hypotheses, "brand")
                \o TasksOf(hypotheses, "competitive")
    /\ pc' = "pass1"
    /\ events' = Yield(entry, events, <<Event("hypotheses"), Event("status_search")>>)
    /\ UNCHANGED <<ws_vars, req_vars, parsed, gen_vars, r1, validation, judge,
                   second_pass_used, queries, judged, item, validated, gate_before, response,
                   count_vars, verdicts, run_log, run_events, llm_errors,
                   global_vars, aux_vars>>

----------------------------------------------------------------------------
(* The quality gate of the streaming run *)

\* all_v: the findings in category order, each known by where it sits.
PositionsOf(v, c) == [i \in 1..Len(v[c]) |-> [cat |-> c, idx |-> i]]
AllPositions(v) == PositionsOf(v, "market") \o PositionsOf(v, "brand") \o PositionsOf(v, "competitive")

FindingAt(v, pos) == v[pos.cat][pos.idx]

RECURSIVE CountTrusted(_, _)
CountTrusted(v, all_v) ==
    IF all_v = <<>> THEN 0
    ELSE (IF FindingAt(v, Head(all_v)).is_trusted THEN 1 ELSE 0) + CountTrusted(v, Tail(all_v))

GateCandidatesAny(v, all_v) == all_v

\* unverified = [(cat, v) for cat, v in all_v if not v.get("is_trusted", False)]
GateCandidates(v, all_v) ==
    IF all_v = <<>> THEN <<>>
    ELSE SelectSeq(all_v, LAMBDA pos : ~FindingAt(v, pos).is_trusted)

\* unverified.sort(key=trust_score): stable, lowest score first.
RECURSIVE InsertAsc(_, _, _)
InsertAsc(v, sorted, pos) ==
    IF sorted = <<>> THEN <<pos>>
    ELSE IF FindingAt(v, Head(sorted)).trust_score <= FindingAt(v, pos).trust_score
         THEN <<Head(sorted)>> \o InsertAsc(v, Tail(sorted), pos)
         ELSE <<pos>> \o sorted

LatestFirst(v, list) == [i \in 1..Len(list) |-> list[Len(list) + 1 - i]]

RECURSIVE SortAsc(_, _)
SortAsc(v, list) ==
    IF list = <<>> THEN <<>>
    ELSE InsertAsc(v, SortAsc(v, SubSeq(list, 1, Len(list) - 1)), list[Len(list)])

GateStopBelowThree(remaining_total, remaining_trusted, pct) ==
    remaining_total <= 2 \/ remaining_trusted * 100 >= pct * remaining_total

\* if remaining_total <= 1 or remaining_trusted / remaining_total * 100 >= pct: break
GateStop(remaining_total, remaining_trusted, pct) ==
    remaining_total <= 1 \/ remaining_trusted * 100 >= pct * remaining_total

RECURSIVE ItemsToDrop(_, _, _, _, _)
ItemsToDrop(unverified, remaining_total, remaining_trusted, pct, dropped) ==
    IF unverified = <<>> THEN dropped
    ELSE IF GateStop(remaining_total, remaining_trusted, pct) THEN dropped
    ELSE ItemsToDrop(Tail(unverified), remaining_total - 1, remaining_trusted, pct,
                     dropped \cup {Head(unverified)})

RECURSIVE KeepPositions(_, _, _, _)
KeepPositions(list, c, i, dropped) ==
    IF i > Len(list) THEN <<>>
    ELSE (IF [cat |-> c, idx |-> i] \in dropped THEN <<>> ELSE <<list[i]>>)
         \o KeepPositions(list, c, i + 1, dropped)

GateResult(v, pct) ==
    LET all_v == AllPositions(v)
        total == Len(all_v)
        trusted == CountTrusted(v, all_v)
    IN IF pct > 0 /\ total > 0 /\ trusted * 100 < pct * total
       THEN LET items_to_drop ==
                    ItemsToDrop(SortAsc(v, GateCandidates(v, all_v)), total, trusted, pct, {})
            IN [c \in CatSet |-> KeepPositions(v[c], c, 1, items_to_drop)]
       ELSE v

\* items_to_drop as the gate leaves it: empty when the gate does not run.
GateDrops(v, pct) ==
    LET all_v == AllPositions(v)
        total == Len(all_v)
        trusted == CountTrusted(v, all_v)
    IN IF pct > 0 /\ total > 0 /\ trusted * 100 < pct * total
       THEN ItemsToDrop(SortAsc(v, GateCandidates(v, all_v)), total, trusted, pct, {})
       ELSE {}

\* if items_to_drop: ... yield sse("quality_filter", ...)
GateEvents(v, pct) == IF GateDrops(v, pct) # {} THEN <<Event("quality_filter")>> ELSE <<>>

QualityGate ==
    /\ pc = "gate"
    /\ gate_before' = validated
    /\ validated' = GateResult(validated, min_verified_pct)
    /\ events' = Yield(entry, events, GateEvents(validated, min_verified_pct))
    /\ pc' = "summary"
    /\ UNCHANGED <<ws_vars, req_vars, parsed, gen_vars, proc_vars, response, count_vars,
                   verdicts, run_log, run_events, llm_errors, global_vars, aux_vars>>

----------------------------------------------------------------------------
(* research and research_stream.event_gen *)

NoResponse == [kind |-> "none"]

\* The keys of a summary, and the category each one is built from.
SummaryKeys == {"macro_drivers", "brand_drivers", "competitive_drivers"}

CategoryOf(output_key) ==
    CASE output_key = "macro_drivers" -> "market"
      [] output_key = "brand_drivers" -> "brand"
      [] OTHER -> "competitive"

EmptySummary == [k \in SummaryKeys |-> <<>>]

\* RUN_LOG.append and _emit_run_event calls of a short-circuited run: research
\* appends for help and for coaching and emits for coaching only; event_gen
\* does neither.
ShortCircuitLogs(e, q) == IF e = "research" THEN 1 ELSE 0

ShortCircuitEmits(e, q) == IF e = "research" /\ ~q.help THEN 1 ELSE 0

\* The telemetry fields of a payload; the short-circuit payloads of the
\* streaming run have none.
Telemetry(ws, llm) == [present |-> TRUE, web_searches |-> ws, llm_calls |-> llm]
NoTelemetry == [present |-> FALSE, web_searches |-> 0, llm_calls |-> 0]

ShortCircuitHelpOnly(q) == q.help

\* _is_help_question(q) or not _looks_like_metric_change(q)
ShortCircuit(q) == q.help \/ ~q.metric_change

\* The help / coaching payload.  research reports web_searches=0 and the run
\* context's llm_calls.
ShortCircuitPayload(e, q, llm) ==
    [kind |-> IF q.help THEN "help" ELSE "coaching",
     hypotheses |-> EmptyByCategory,
     validated_hypotheses |-> EmptyByCategory,
     summary |-> EmptySummary,
     telemetry |-> IF e = "research" THEN Telemetry(0, llm) ELSE NoTelemetry]

\* The two classifier tests, in the order both entry points apply them; the
\* streaming run has yielded its start status before.
Classify ==
    /\ pc = "start"
    /\ IF ShortCircuit(question)
       THEN /\ response' = ShortCircuitPayload(entry, question, llm_calls)
            /\ run_log' = run_log + ShortCircuitLogs(entry, question)
            /\ run_events' = run_events + ShortCircuitEmits(entry, question)
            /\ events' = Yield(entry, events, <<Event("status_start"), Event("final")>>)
            /\ pc' = "final"
       ELSE /\ pc' = "parse"
            /\ events' = Yield(entry, events, <<Event("status_start")>>)
            /\ UNCHANGED <<response, run_log, run_events>>
    /\ UNCHANGED <<ws_vars, req_vars, parsed, gen_vars, proc_vars, validated, gate_before,
                   count_vars, verdicts, llm_errors, global_vars, aux_vars>>

COMPETITOR_DB(brand) ==
    CASE brand = "new look" -> <<"primark", "m&s", "asos", "next", "h&m", "shein", "zara">>
      [] brand = "primark" -> <<"new look", "h&m", "shein">>
      [] OTHER -> <<>>

\* A reply to the parse prompt: JSON with a brand, JSON without the key, text
\* without JSON, or llm_generate raising.
ParseReply(kind, brand) == [kind |-> kind, brand |-> brand]
ParseRaised == ParseReply("exception", "")

NotParsed == [has_brand |-> FALSE, brand |-> ""]

parse_question(reply) ==
    CASE reply.kind = "json" -> [has_brand |-> TRUE, brand |-> reply.brand]
      [] reply.kind = "json_no_brand" -> [has_brand |-> FALSE, brand |-> ""]
      [] OTHER -> [has_brand |-> TRUE, brand |-> "unknown"]

\* Steps 1 and 2.  Without a "brand" key the run dies on parsed["brand"]: a 500
\* from research, a broken stream from event_gen, which reads the key only in
\* generate_hypotheses, after it has yielded parsed and competitors.
ParseQuestion(reply) ==
    LET got == llm_generate(provider, reply, ParseRaised)
    IN /\ pc = "parse"
       /\ parsed' = parse_question(got)
       /\ llm_calls' = llm_calls + LlmCounted(got)
       /\ llm_issued' = llm_issued + LlmIssued(provider)
       /\ llm_errors' = llm_errors \cup LlmError(got.kind)
       /\ events' = Yield(entry, events, <<Event("parsed"), Event("competitors")>>)
       /\ IF parsed'.has_brand
          THEN /\ competitors' = COMPETITOR_DB(parsed'.brand)
               /\ pc' = "gen_industry"
               /\ UNCHANGED response
          ELSE /\ pc' = "failed"
               /\ response' = [kind |-> IF entry = "research" THEN "error_500" ELSE "aborted"]
               /\ UNCHANGED competitors
       /\ UNCHANGED <<ws_vars, req_vars, max_per_category, id_scheme, hypotheses, yielded,
                      pre_filter, remove_ids, proc_vars, validated, gate_before,
                      web_searches, searches_issued, verdicts, run_log, run_events,
                      global_vars, aux_vars>>

\* A driver of the summary; source_urls is empty for a source that is None or "".
\* "driver": item.get("evidence", item.get("hypothesis", ""))
Driver(finding) ==
    [driver |-> get(finding, "evidence", get(finding, "hypothesis", "")),
     hypothesis |-> finding.hypothesis,
     source_urls |-> IF finding.source \in {NoUrl, EmptyUrl} THEN <<>> ELSE <<finding.source>>,
     status |-> finding.status]

build_summary_nonempty(v) ==
    [k \in {x \in SummaryKeys : v[CategoryOf(x)] # <<>>} |->
        [i \in 1..Len(v[CategoryOf(k)]) |-> Driver(v[CategoryOf(k)][i])]]

build_summary(v) ==
    [k \in SummaryKeys |->
        LET items == SelectSeq(v[CategoryOf(k)], LAMBDA f : f.status = "VALIDATED")
        IN [i \in 1..Len(items) |-> Driver(items[i])]]

HasEvidence(v) == \E c \in CatSet : v[c] # <<>>

\* The final payload.
FinalPayload(hyps, v, ws, llm) ==
    [kind |-> "normal",
     hypotheses |-> hyps,
     validated_hypotheses |-> v,
     summary |-> build_summary(v),
     telemetry |-> Telemetry(ws, llm)]

\* Step 5: the summary, the run summary record and the final payload; the
\* streaming run then asks the LLM for an executive summary when there is any
\* finding.  research builds a ResearchResponse, whose hypotheses field takes
\* objects only: an element that is not one fails validation, a 500.
Finalize(reply) ==
    LET got == llm_generate(provider, reply, Raised)
        asks == entry = "stream" /\ HasEvidence(validated)
        accepted == entry = "stream" \/ AllDicts(hypotheses)
    IN /\ pc = "summary"
       /\ run_log' = run_log + 1
       /\ run_events' = run_events + 1
       /\ llm_calls' = llm_calls + (IF asks THEN LlmCounted(got) ELSE 0)
       /\ llm_issued' = llm_issued + (IF asks THEN LlmIssued(provider) ELSE 0)
       /\ llm_errors' = llm_errors \cup (IF asks THEN LlmError(got.kind) ELSE {})
       /\ events' = Yield(entry, events, <<Event("executive_summary"), Event("final")>>)
       /\ response' = IF accepted
                      THEN FinalPayload(hypotheses, validated, web_searches, llm_calls)
                      ELSE [kind |-> "error_500"]
       /\ pc' = IF accepted THEN "final" ELSE "failed"
       /\ UNCHANGED <<ws_vars, req_vars, parsed, gen_vars, proc_vars, validated, gate_before,
                      web_searches, searches_issued, verdicts, global_vars, aux_vars>>

----------------------------------------------------------------------------
(* Concurrent streaming runs and the run metrics *)

Runs == {"A", "B"}

\* Two of the counters _run_metric_incr is called for.
MetricKeys == {"web_searches", "llm_calls"}

ZeroMetrics == [k \in MetricKeys |-> 0]

\* Calls of one kind a run issues.
MaxCalls == 2

\* What the steps of the concurrent runs leave alone.
metric_frame == <<ws_vars, run_vars, global_vars, reg_vars, rerun_vars, call_vars>>

\* event_gen starts: a fresh run_metrics dict, _run_ctx.set(run_metrics) in the
\* context executing this segment, and _fallback_metrics = run_metrics.
StreamStart(r) ==
    /\ m_pc[r] = "idle"
    /\ m_pc' = [m_pc EXCEPT ![r] = "running"]
    /\ run_metrics' = [run_metrics EXCEPT ![r] = ZeroMetrics]
    /\ fallback_metrics' = r
    /\ UNCHANGED <<issued, metric_frame>>

\* The dict _run_metric_incr writes to: the one _run_ctx holds where the
\* executing thread sees it, else the one _fallback_metrics names, else none.
MetricTarget(r, visible, fallback) == IF visible THEN r ELSE fallback

\* A call issued by run r, in a later segment of its generator, increments a
\* counter.  Whether the context variable set in the first segment is visible
\* there is up to the server's thread pool.
MetricIncr(r, key, visible) ==
    LET ctx == MetricTarget(r, visible, fallback_metrics)
    IN /\ m_pc[r] = "running"
       /\ issued[r][key] < MaxCalls
       /\ issued' = [issued EXCEPT ![r][key] = @ + 1]
       /\ run_metrics' = IF ctx = "None" THEN run_metrics
                         ELSE [run_metrics EXCEPT ![ctx][key] = @ + 1]
       /\ UNCHANGED <<m_pc, fallback_metrics, metric_frame>>

\* The generator ends.  After the final event _run_ctx.reset(token) runs
\* first and raises where the token belongs to another context; only
\* otherwise is _fallback_metrics set to None.  The help and coaching
\* returns never clear it.
StreamEnd(r, cleared) ==
    /\ m_pc[r] = "running"
    /\ m_pc' = [m_pc EXCEPT ![r] = "done"]
    /\ fallback_metrics' = IF cleared THEN "None" ELSE fallback_metrics
    /\ UNCHANGED <<run_metrics, issued, metric_frame>>

----------------------------------------------------------------------------
(* PUT /sources, POST /sources/reset and a concurrent _score_source *)

\* List objects created by writes.
MaxWrites == 2

\* An element of the body that is not an object.
NotAnObject == [not_a_dict |-> TRUE]

\* isinstance(src, dict) and "domain" in src
HasDomain(src) == "not_a_dict" \notin DOMAIN src /\ "domain" \in DOMAIN src

\* src.setdefault(key, value)
setdefault(src, key, value) ==
    IF key \in DOMAIN src THEN src
    ELSE [k \in DOMAIN src \cup {key} |-> IF k = key THEN value ELSE src[k]]

\* src.setdefault("trust_score", 5)
DEFAULT_ENTRY_SCORE == 5

\* The three setdefault calls on a validated entry.
Normalise(src) ==
    setdefault(setdefault(setdefault(src, "name", src.domain),
                          "trust_score", DEFAULT_ENTRY_SCORE),
               "tier", "custom")

\* The bodies a PUT may carry.
BodyEntries ==
    { Entry(<<"example", "com">>, "Example", 2, "custom"),
      [domain |-> <<"news", "org">>],
      [name |-> <<"Nameless">>],
      NotAnObject }

PutBodies ==
    {[kind |-> "missing", entries |-> <<>>], [kind |-> "not_a_list", entries |-> <<>>]}
    \cup {[kind |-> "list", entries |-> l] : l \in SeqsUpTo(BodyEntries, 2)}

\* What the steps on the registry leave alone.
reg_frame == <<ws_vars, run_vars, min_verified_pct, metric_vars, rerun_vars, call_vars>>

\* update_sources up to its loop: the body is read and its trusted_sources
\* checked to be there and to be a list.
PutBegin(body) ==
    /\ w_pc = "idle"
    /\ Len(lists) < 1 + MaxWrites
    /\ reg_before' = registry
    /\ IF body.kind = "list"
       THEN /\ lists' = Append(lists, body.entries)
            /\ w_obj' = Len(lists) + 1
            /\ w_i' = 0
            /\ w_pc' = "validate"
       ELSE /\ w_pc' = "rejected"
            /\ UNCHANGED <<lists, w_obj, w_i>>
    /\ UNCHANGED <<registry, reg_obj, published, rd_pc, rd_obj, rd_seen, reg_frame>>

\* One round of the validation loop: reject, or fill in the entry's defaults
\* in the list the request holds.
PutValidate ==
    /\ w_pc = "validate"
    /\ w_i < Len(lists[w_obj])
    /\ IF HasDomain(lists[w_obj][w_i + 1])
       THEN /\ lists' = [lists EXCEPT ![w_obj][w_i + 1] = Normalise(@)]
            /\ w_i' = w_i + 1
            /\ UNCHANGED w_pc
       ELSE /\ w_pc' = "rejected"
            /\ UNCHANGED <<lists, w_i>>
    /\ UNCHANGED <<registry, reg_obj, w_obj, reg_before, published, rd_pc, rd_obj, rd_seen,
                   reg_frame>>

\* _trusted_sources = new_sources
PutSwap ==
    /\ w_pc = "validate"
    /\ w_i = Len(lists[w_obj])
    /\ reg_obj' = w_obj
    /\ registry' = lists[w_obj]
    /\ published' = published \cup {lists[w_obj]}
    /\ w_pc' = "updated"
    /\ UNCHANGED <<lists, w_obj, w_i, reg_before, rd_pc, rd_obj, rd_seen, reg_frame>>

\* The handler returns or its HTTPException(400) is answered.
PutReturn ==
    /\ w_pc \in {"updated", "rejected"}
    /\ w_pc' = "idle"
    /\ UNCHANGED <<registry, lists, reg_obj, w_obj, w_i, reg_before, published,
                   rd_pc, rd_obj, rd_seen, reg_frame>>

\* reset_sources: _trusted_sources = list(DEFAULT_TRUSTED_SOURCES).  Both
\* handlers run on the event loop and do not await once the body is read, so
\* neither starts while the other is at work.
ResetSources ==
    /\ w_pc = "idle"
    /\ Len(lists) < 1 + MaxWrites
    /\ lists' = Append(lists, DEFAULT_TRUSTED_SOURCES)
    /\ reg_obj' = Len(lists) + 1
    /\ registry' = DEFAULT_TRUSTED_SOURCES
    /\ published' = published \cup {DEFAULT_TRUSTED_SOURCES}
    /\ UNCHANGED <<w_pc, w_obj, w_i, reg_before, rd_pc, rd_obj, rd_seen, reg_frame>>

IteratedListRebound(bound, current) == current

\* The list the loop of _score_source walks: the object `sources` was bound
\* to before the loop, whatever _trusted_sources names by now.
IteratedList(bound, current) == bound

\* sources = trusted_sources or _trusted_sources, in a run's worker thread.
ReadBind ==
    /\ rd_pc = "idle"
    /\ rd_obj' = reg_obj
    /\ rd_seen' = <<>>
    /\ rd_pc' = "loop"
    /\ UNCHANGED <<registry, lists, reg_obj, w_pc, w_obj, w_i, reg_before, published,
                   reg_frame>>

\* One round of `for src in sources`, for a URL no entry matches.
ReadNext ==
    LET sources == lists[IteratedList(rd_obj, reg_obj)]
    IN /\ rd_pc = "loop"
       /\ IF Len(rd_seen) < Len(sources)
          THEN /\ rd_seen' = Append(rd_seen, sources[Len(rd_seen) + 1])
               /\ UNCHANGED rd_pc
          ELSE /\ rd_pc' = "done"
               /\ UNCHANGED rd_seen
       /\ UNCHANGED <<registry, lists, reg_obj, w_pc, w_obj, w_i, reg_before, published,
                      rd_obj, reg_frame>>

\* _score_source returns; the next call may begin.
ReadReturn ==
    /\ rd_pc = "done"
    /\ rd_pc' = "idle"
    /\ UNCHANGED <<registry, lists, reg_obj, w_pc, w_obj, w_i, reg_before, published,
                   rd_obj, rd_seen, reg_frame>>

----------------------------------------------------------------------------
(* The same request run again on the same canned responses *)

NoCanned == [given |-> FALSE]

\* What a run produced: how it ended, its hypotheses, the verdict on each, the
\* findings after the gate and the summary.
RunOutcome ==
    [kind |-> response.kind,
     hypotheses |-> hypotheses,
     verdicts |-> verdicts,
     validated |-> validated,
     summary |-> IF response.kind = "normal" THEN response.summary ELSE EmptySummary]

\* The first run is over and the same request is made again: a new run
\* context, the process-wide state (RUN_LOG, registry, config) as it is.
Rerun ==
    /\ pc \in {"final", "failed"}
    /\ run_no = 1
    /\ first_run' = RunOutcome
    /\ run_no' = 2
    /\ pc' = "start"
    /\ parsed' = NotParsed
    /\ competitors' = <<>>
    /\ hypotheses' = EmptyByCategory /\ yielded' = [c \in CatSet |-> 0]
    /\ pre_filter' = EmptyByCategory /\ remove_ids' = {}
    /\ tasks' = <<>> /\ r1' = <<>> /\ validation' = NoValidation /\ judge' = "none"
    /\ second_pass_used' = FALSE /\ item' = [validated |-> FALSE]
    /\ queries' = <<>> /\ judged' = <<>>
    /\ validated' = EmptyByCategory /\ gate_before' = EmptyByCategory
    /\ response' = NoResponse
    /\ web_searches' = 0 /\ llm_calls' = 0 /\ searches_issued' = 0 /\ llm_issued' = 0
    /\ events' = <<>> /\ verdicts' = <<>> /\ llm_errors' = {}
    /\ UNCHANGED <<ws_vars, req_vars, max_per_category, id_scheme, run_log, run_events,
                   global_vars, metric_vars, reg_vars, call_vars, canned>>

\* The first run is over and the same request is made to the other entry
\* point, on the same canned responses.
RunOtherEntry ==
    /\ pc \in {"final", "failed"}
    /\ run_no = 1
    /\ first_run' = RunOutcome
    /\ run_no' = 2
    /\ entry' = IF entry = "stream" THEN "research" ELSE "stream"
    /\ pc' = "start"
    /\ parsed' = NotParsed
    /\ competitors' = <<>>
    /\ hypotheses' = EmptyByCategory /\ yielded' = [c \in CatSet |-> 0]
    /\ pre_filter' = EmptyByCategory /\ remove_ids' = {}
    /\ tasks' = <<>> /\ r1' = <<>> /\ validation' = NoValidation /\ judge' = "none"
    /\ second_pass_used' = FALSE /\ item' = [validated |-> FALSE]
    /\ queries' = <<>> /\ judged' = <<>>
    /\ validated' = EmptyByCategory /\ gate_before' = EmptyByCategory
    /\ response' = NoResponse
    /\ web_searches' = 0 /\ llm_calls' = 0 /\ searches_issued' = 0 /\ llm_issued' = 0
    /\ events' = <<>> /\ verdicts' = <<>> /\ llm_errors' = {}
    /\ UNCHANGED <<ws_vars, question, provider, req_trusted_sources, max_per_category,
                   id_scheme, run_log, run_events, global_vars, metric_vars, reg_vars,
                   call_vars, canned>>

----------------------------------------------------------------------------
(* One call of a helper function on its own *)

call_frame == <<ws_vars, run_vars, global_vars, metric_vars, reg_vars, rerun_vars>>

\* "www." + host
WithWww(url) == Url(<<"www">> \o url.host, url.path)

\* _score_source(url, trusted_sources)
ScoreUrl ==
    /\ call_pc = "ready"
    /\ call_rets' = <<score_source(call_args.url, call_args.trusted_sources, registry)>>
    /\ call_pc' = "returned"
    /\ UNCHANGED <<call_args, call_frame>>

\* _score_source again, on the URL whose host has one more leading "www."
ScoreWwwUrl ==
    /\ call_pc = "returned"
    /\ call_args.url.host # <<>>
    /\ call_rets' = Append(call_rets,
                        score_source(WithWww(call_args.url), call_args.trusted_sources, registry))
    /\ call_pc' = "again"
    /\ UNCHANGED <<call_args, call_frame>>

\* ---- the classifier tests on the text of a question ----
\* A question is the sequence of its words; "" is a run of whitespace.

LowerWord(w) == IF w = "Help" THEN "help" ELSE w

lower(q) == [i \in 1..Len(q) |-> LowerWord(q[i])]

RECURSIVE lstrip(_)
lstrip(q) == IF q # <<>> /\ Head(q) = "" THEN lstrip(Tail(q)) ELSE q

RECURSIVE rstrip(_)
rstrip(q) == IF q # <<>> /\ q[Len(q)] = "" THEN rstrip(SubSeq(q, 1, Len(q) - 1)) ELSE q

strip(q) == rstrip(lstrip(q))

\* re.match(r"^\s*(/help|help)\b", ql): "helpful" has no word boundary after "help".
HelpPrefixes == {"/help", "help"}

\* The phrases of _is_help_question that the questions of the model use.
phrases == {"capabilities", "supported metrics"}

metric_words == {"salience"}

\* `w in ql` is a substring test: "supported" holds "up".
change_words == {"fell", "supported metrics"}

is_help_question_phrases_only(q) ==
    LET ql == lower(strip(q))
    IN IF ql = <<>> THEN FALSE
       ELSE \E i \in 1..Len(ql) : ql[i] \in phrases

is_help_question(q) ==
    LET ql == lower(strip(q))
    IN IF ql = <<>> THEN FALSE
       ELSE \/ Head(ql) \in HelpPrefixes
            \/ \E i \in 1..Len(ql) : ql[i] \in phrases

looks_like_metric_change(q) ==
    LET ql == lower(q)
    IN /\ \E i \in 1..Len(ql) : ql[i] \in metric_words
       /\ \E i \in 1..Len(ql) : ql[i] \in change_words

\* What the two tests see in a question.
Tested(q) == [help |-> is_help_question(q), metric_change |-> looks_like_metric_change(q)]

\* ---- extract_json ----
\* A text is a sequence of pieces: "{" and "}", "k" (a member such as "a": 1),
\* "q}" (a member whose string value holds a closing brace), "F" (a code fence,
\* with its optional json tag and the whitespace around it).

\* An outcome of a step that may raise.
Returned(v) == [raised |-> FALSE, value |-> v]
Raises == [raised |-> TRUE, value |-> <<>>]

\* The empty mapping, {}.
EmptyMapping == <<>>

\* json.loads on a text that starts with "{": the members of the object, in
\* order, a nested object as the sequence of its own members.  `at` is the
\* position after the opening brace; the result says where the object ended.
RECURSIVE Members(_, _, _)
Members(text, at, acc) ==
    IF at > Len(text) THEN [ok |-> FALSE, value |-> acc, next |-> at]
    ELSE CASE text[at] = "}" -> [ok |-> TRUE, value |-> acc, next |-> at + 1]
           [] text[at] \in {"k", "q}"} -> Members(text, at + 1, Append(acc, text[at]))
           [] text[at] = "{" ->
                LET inner == Members(text, at + 1, <<>>)
                IN IF inner.ok THEN Members(text, inner.next, Append(acc, inner.value))
                   ELSE [ok |-> FALSE, value |-> acc, next |-> at]
           [] OTHER -> [ok |-> FALSE, value |-> acc, next |-> at]

json_loads(text) ==
    IF text = <<>> \/ Head(text) # "{" THEN Raises
    ELSE LET m == Members(text, 2, <<>>)
         IN IF m.ok /\ m.next = Len(text) + 1 THEN Returned(m.value) ELSE Raises

\* re.search(r'```(?:json)?\s*\n?(\{.*?\})\n?\s*```', text, re.DOTALL): the
\* leftmost fence followed by "{", up to the nearest "}" that a fence follows.
NoMatch == [found |-> FALSE, group |-> <<>>]

code_match(text) ==
    LET opens == {i \in 1..(Len(text) - 1) :
                    /\ text[i] = "F" /\ text[i + 1] = "{"
                    /\ \E j \in (i + 2)..(Len(text) - 1) : text[j] = "}" /\ text[j + 1] = "F"}
    IN IF opens = {} THEN NoMatch
       ELSE LET i == CHOOSE a \in opens : \A b \in opens : a <= b
                closes == {j \in (i + 2)..(Len(text) - 1) : text[j] = "}" /\ text[j + 1] = "F"}
                j == CHOOSE a \in closes : \A b \in closes : a <= b
            IN [found |-> TRUE, group |-> SubSeq(text, i + 1, j)]

\* text.find('{')
find_brace(text) ==
    LET at == {i \in 1..Len(text) : text[i] = "{"}
    IN IF at = {} THEN 0 ELSE CHOOSE a \in at : \A b \in at : a <= b

\* The loop over text[start:]: count goes up on '{' and down on '}', and the
\* loop returns json.loads of the slice when it comes back to 0.
RECURSIVE brace_loop(_, _, _, _)
brace_loop(text, start, i, count) ==
    IF i > Len(text) THEN Returned(EmptyMapping)   \* falls out of the try block
    ELSE LET c == CASE text[i] = "{" -> count + 1
                    [] text[i] \in {"}", "q}"} -> count - 1
                    [] OTHER -> count
         IN IF text[i] \in {"}", "q}"} /\ c = 0
            THEN json_loads(SubSeq(text, start, i))
            ELSE brace_loop(text, start, i + 1, c)

\* try: ... except: pass, followed by what comes after the try statement.
propagate(r, after) == r

except_pass(r, after) == IF r.raised THEN after ELSE r

extract_json(text) ==
    LET m == code_match(text)
        start == find_brace(text)
        balanced == IF start = 0 THEN Returned(EmptyMapping)
                    ELSE except_pass(brace_loop(text, start, start, 0), Returned(EmptyMapping))
    IN IF m.found THEN except_pass(json_loads(m.group), balanced) ELSE balanced

ExtractJson ==
    /\ call_pc = "ready"
    /\ call_rets' = <<extract_json(call_args)>>
    /\ call_pc' = "returned"
    /\ UNCHANGED <<call_args, call_frame>>

\* ---- build_summary ----
BuildSummary ==
    /\ call_pc = "ready"
    /\ call_rets' = <<build_summary(call_args)>>
    /\ call_pc' = "returned"
    /\ UNCHANGED <<call_args, call_frame>>

----------------------------------------------------------------------------
(* Specifications *)

\* The components at rest.
WsOff ==
    /\ ws_pc = "off" /\ attempt = 0 /\ use_temperature = FALSE /\ tool_calls = 0
    /\ waits = <<>> /\ ws_error = "none" /\ resp = <<>>
    /\ max_sources = DEFAULT_MAX_SOURCES /\ ts_param = NoList /\ ws_result = <<>>

GenAtRest ==
    /\ hypotheses = EmptyByCategory /\ yielded = [c \in CatSet |-> 0]
    /\ pre_filter = EmptyByCategory /\ remove_ids = {}

ProcAtRest ==
    /\ r1 = <<>> /\ validation = NoValidation /\ judge = "none"
    /\ second_pass_used = FALSE /\ item = [validated |-> FALSE]
    /\ queries = <<>> /\ judged = <<>>

CountsZero ==
    web_searches = 0 /\ llm_calls = 0 /\ searches_issued = 0 /\ llm_issued = 0

OutAtRest ==
    /\ events = <<>> /\ verdicts = <<>> /\ run_log = 0 /\ run_events = 0
    /\ llm_errors = {}

MetricsOff ==
    /\ m_pc = [r \in Runs |-> "idle"] /\ run_metrics = [r \in Runs |-> ZeroMetrics]
    /\ fallback_metrics = "None"
    /\ issued = [r \in Runs |-> ZeroMetrics]

RegistryOff ==
    /\ lists = <<>> /\ reg_obj = 0 /\ w_pc = "idle" /\ w_obj = 0 /\ w_i = 0
    /\ reg_before = <<>> /\ published = {} /\ rd_pc = "idle" /\ rd_obj = 0 /\ rd_seen = <<>>

RerunOff == canned = NoCanned /\ run_no = 1 /\ first_run = NoResponse

CallOff == call_pc = "off" /\ call_args = <<>> /\ call_rets = <<>>

AuxAtRest == MetricsOff /\ RegistryOff /\ RerunOff /\ CallOff

DefaultGlobals == registry = DEFAULT_TRUSTED_SOURCES /\ min_verified_pct = DEFAULT_MIN_VERIFIED_PCT

RunOff ==
    /\ pc = "off" /\ entry = "research" /\ question = [help |-> FALSE, metric_change |-> TRUE]
    /\ provider = "anthropic" /\ req_trusted_sources = NoList /\ parsed = NotParsed
    /\ max_per_category = MIN_MAX_HYPOTHESES /\ competitors = <<>> /\ id_scheme = "prefixed"
    /\ GenAtRest /\ tasks = <<>> /\ ProcAtRest
    /\ validated = EmptyByCategory /\ gate_before = EmptyByCategory
    /\ response = NoResponse /\ CountsZero /\ OutAtRest

\* ---- one openai_web_search invocation ----
SearchInit == WsInit /\ RunOff /\ DefaultGlobals /\ AuxAtRest

SearchNext ==
    \/ \E items \in Responses : SearchToolReturns(items)
    \/ SearchTemperatureRejected
    \/ SearchRateLimited
    \/ SearchOtherError

SpecSearch == SearchInit /\ [][SearchNext]_vars

\* ---- one generate_hypotheses call ----
GenInit ==
    /\ pc = "gen_industry"
    /\ entry = "research" /\ question = [help |-> FALSE, metric_change |-> TRUE]
    /\ provider \in {"anthropic", "gemini"}
    /\ req_trusted_sources = NoList
    /\ parsed \in {[has_brand |-> TRUE, brand |-> b] : b \in {"unknown", "primark"}}
    /\ max_per_category \in 1..MaxCap
    /\ competitors = COMPETITOR_DB(parsed.brand)
    /\ id_scheme \in {"prefixed", "shared"}
    /\ GenAtRest /\ tasks = <<>> /\ ProcAtRest
    /\ validated = EmptyByCategory /\ gate_before = EmptyByCategory
    /\ response = NoResponse /\ CountsZero /\ OutAtRest
    /\ WsOff /\ AuxAtRest /\ DefaultGlobals

GenReplySet == FailReplies \cup ListReplies(max_per_category, {"full"})

GenNext ==
    \/ \E reply \in {Raised, Reply("list", 1, "full")} : GenIndustry(reply)
    \/ \E reply \in GenReplySet : GenMarket(reply)
    \/ \E reply \in GenReplySet : GenBrand(reply)
    \/ \E reply \in DetectReplies : GenDetect(reply)
    \/ \E reply \in GenReplySet : GenCompetitive(reply)
    \/ \E reply \in FilterReplies : GenFilter(reply)

SpecGen == GenInit /\ [][GenNext]_vars

\* ---- one process_one call and the loop step that takes its result ----
\* A registry whose entries are all below the "trusted" tier.
NoTrustedTierRegistry == << Entry(<<"bbc", "com">>, "BBC", 8, "reputable") >>

ProcUrlPool ==
    { Url(<<"WWW", "Reuters", "com">>, "a"),
      Url(<<"www", "bbc", "com">>, "a"),
      Url(<<"blog", "example", "com">>, "a"),
      Url(<<"m", "facebook", "com">>, "a") }

\* What a search call may come back with: an exception, an empty response, one
\* cited URL, or prose with or without a citation.
SearchOutcomes ==
    {SearchOutcome(TRUE, <<>>), SearchOutcome(FALSE, <<>>),
     SearchOutcome(FALSE, <<MessageItem(TRUE, <<>>)>>)}
    \cup {SearchOutcome(FALSE, <<SearchCallItem(<<u>>)>>) : u \in ProcUrlPool}

ProcInit ==
    /\ pc = "pass1"
    /\ entry \in {"research", "stream"}
    /\ question = [help |-> FALSE, metric_change |-> TRUE]
    /\ provider \in {"openai", "gemini"}
    /\ req_trusted_sources \in {NoList, SomeList(<<>>), SomeList(CustomSources)}
    /\ parsed = [has_brand |-> TRUE, brand |-> "unknown"]
    /\ max_per_category = MIN_MAX_HYPOTHESES /\ competitors = <<>> /\ id_scheme = "prefixed"
    /\ hypotheses \in {[EmptyByCategory EXCEPT !["market"] = <<ShapedHypothesis(<<"M", 1>>, sh)>>]
                       : sh \in ElementShapes}
    /\ yielded = [c \in CatSet |-> 0] /\ pre_filter = hypotheses /\ remove_ids = {}
    /\ tasks = TasksOf(hypotheses, "market")
    /\ ProcAtRest
    /\ validated = EmptyByCategory /\ gate_before = EmptyByCategory
    /\ response = NoResponse /\ CountsZero /\ OutAtRest
    /\ WsOff /\ AuxAtRest
    /\ registry \in {DEFAULT_TRUSTED_SOURCES, NoTrustedTierRegistry}
    /\ min_verified_pct = DEFAULT_MIN_VERIFIED_PCT

ProcNext ==
    \/ ProcessRaises
    \/ \E outcome \in SearchOutcomes, answer \in JudgeAnswers : Pass1(outcome, answer)
    \/ \E outcome \in SearchOutcomes, answer \in JudgeAnswers : Pass2(outcome, answer)
    \/ \E outcome \in SearchOutcomes, answer \in JudgeAnswers : Pass3(outcome, answer)
    \/ Collect

SpecProcess == ProcInit /\ [][ProcNext]_vars

\* ---- the quality gate ----
\* A registry as PUT /sources may leave it: a custom entry scored below the
\* score of an unmatched source.
GateRegistry ==
    << Entry(<<"reuters", "com">>, "Reuters", 10, "trusted"),
       Entry(<<"example", "com">>, "Example", 2, "custom") >>

GateUrlPool ==
    { Url(<<"WWW", "Reuters", "com">>, "a"),
      Url(<<"blog", "example", "com">>, "a"),
      Url(<<"news", "site", "org">>, "a") }

\* The findings a streaming run can hold: a validated item whose lead source is
\* one of the pool's URLs as the registry scores it.
GateFindings ==
    {Finding("stream",
             ProcessItem("stream", ShapedHypothesis(<<"H", 1>>, "full"),
                         <<Scored(RawSource(u), NoList, GateRegistry)>>,
                         validate_hypothesis("true", 1), FALSE))
     : u \in GateUrlPool}

GateThresholds == {0, 25, 50, 100, 150}

GateInit ==
    /\ pc = "gate"
    /\ entry = "stream" /\ question = [help |-> FALSE, metric_change |-> TRUE]
    /\ provider = "anthropic" /\ req_trusted_sources = NoList
    /\ parsed = [has_brand |-> TRUE, brand |-> "unknown"]
    /\ max_per_category = MaxFindings /\ competitors = <<>> /\ id_scheme = "prefixed"
    /\ GenAtRest /\ tasks = <<>> /\ ProcAtRest
    /\ validated \in [CatSet -> SeqsUpTo(GateFindings, MaxFindings)]
    /\ gate_before = EmptyByCategory
    /\ response = NoResponse /\ CountsZero /\ OutAtRest
    /\ WsOff /\ AuxAtRest
    /\ registry = GateRegistry
    /\ min_verified_pct \in GateThresholds

GateNext == QualityGate

SpecGate == GateInit /\ [][GateNext]_vars

\* ---- a whole run of either entry point ----
Init ==
    /\ pc = "start"
    /\ entry \in {"research", "stream"}
    /\ question \in [help : BOOLEAN, metric_change : BOOLEAN]
    /\ provider \in {"anthropic", "openai", "gemini"}
    /\ req_trusted_sources = NoList
    /\ parsed = NotParsed
    /\ max_per_category = MIN_MAX_HYPOTHESES /\ competitors = <<>> /\ id_scheme = "prefixed"
    /\ GenAtRest /\ tasks = <<>> /\ ProcAtRest
    /\ validated = EmptyByCategory /\ gate_before = EmptyByCategory
    /\ response = NoResponse /\ CountsZero /\ OutAtRest
    /\ WsOff /\ AuxAtRest /\ DefaultGlobals

\* The replies of a provider that answers; SpecGen explores the failures of one
\* that does not.
RunParseReplies ==
    {ParseReply("json", "primark"), ParseReply("json_no_brand", ""),
     ParseReply("unparsable", "")}

RunReply == Reply("list", 1, "full")

\* The market reply may also hold an element that is not an object.
RunMarketReplies == {RunReply, Reply("list", 1, "not_a_dict")}

RunDetectReplies == {Reply("list", 0, "full"), Reply("list", 2, "full")}

RunFilterReply == FilterReply("ids", [c \in CatSet |-> "all"])

RunSearchOutcomes ==
    {SearchOutcome(TRUE, <<>>),
     SearchOutcome(FALSE, <<SearchCallItem(<<Url(<<"WWW", "Reuters", "com">>, "a")>>)>>),
     SearchOutcome(FALSE, <<SearchCallItem(<<Url(<<"blog", "example", "com">>, "a")>>)>>)}

RunAnswers == {"true", "false"}

Next ==
    \/ Classify
    \/ \E reply \in RunParseReplies : ParseQuestion(reply)
    \/ GenIndustry(RunReply)
    \/ \E reply \in RunMarketReplies : GenMarket(reply)
    \/ GenBrand(RunReply)
    \/ \E reply \in RunDetectReplies : GenDetect(reply)
    \/ GenCompetitive(RunReply)
    \/ GenFilter(RunFilterReply)
    \/ BeginProcessing
    \/ ProcessRaises
    \/ \E outcome \in RunSearchOutcomes, answer \in RunAnswers : Pass1(outcome, answer)
    \/ \E outcome \in RunSearchOutcomes, answer \in RunAnswers : Pass2(outcome, answer)
    \/ \E outcome \in RunSearchOutcomes, answer \in RunAnswers : Pass3(outcome, answer)
    \/ Collect
    \/ QualityGate
    \/ Finalize(RunReply)

Spec == Init /\ [][Next]_vars

\* ---- a whole run whose searches and LLM calls may fail ----
FaultyInit ==
    /\ pc = "start"
    /\ entry \in {"research", "stream"}
    /\ question \in [help : BOOLEAN, metric_change : BOOLEAN]
    /\ provider = "openai"
    /\ req_trusted_sources = NoList
    /\ parsed = NotParsed
    /\ max_per_category = MIN_MAX_HYPOTHESES /\ competitors = <<>> /\ id_scheme = "prefixed"
    /\ GenAtRest /\ tasks = <<>> /\ ProcAtRest
    /\ validated = EmptyByCategory /\ gate_before = EmptyByCategory
    /\ response = NoResponse /\ CountsZero /\ OutAtRest
    /\ WsOff /\ AuxAtRest /\ DefaultGlobals

\* Each call answers well or raises.
FaultyParseReplies == {ParseReply("json", "primark"), ParseReply("exception", "")}

FaultyReplies == {RunReply, Raised}

FaultyFilterReplies == {RunFilterReply, FilterRaised}

FaultySearchOutcomes ==
    {SearchOutcome(TRUE, <<>>),
     SearchOutcome(FALSE, <<SearchCallItem(<<Url(<<"blog", "example", "com">>, "a")>>)>>)}

FaultyAnswers == {"true", "exception"}

FaultyNext ==
    \/ Classify
    \/ \E reply \in FaultyParseReplies : ParseQuestion(reply)
    \/ \E reply \in FaultyReplies : GenIndustry(reply)
    \/ \E reply \in FaultyReplies \cup {BillingError} : GenMarket(reply)
    \/ \E reply \in FaultyReplies : GenBrand(reply)
    \/ \E reply \in FaultyReplies : GenDetect(reply)
    \/ \E reply \in FaultyReplies : GenCompetitive(reply)
    \/ \E reply \in FaultyFilterReplies : GenFilter(reply)
    \/ BeginProcessing
    \/ \E outcome \in FaultySearchOutcomes, answer \in FaultyAnswers : Pass1(outcome, answer)
    \/ \E outcome \in FaultySearchOutcomes, answer \in FaultyAnswers : Pass2(outcome, answer)
    \/ \E outcome \in FaultySearchOutcomes, answer \in FaultyAnswers : Pass3(outcome, answer)
    \/ Collect
    \/ QualityGate
    \/ \E reply \in FaultyReplies : Finalize(reply)

SpecFaulty == FaultyInit /\ [][FaultyNext]_vars

\* ---- two streaming runs in flight ----
MetricsInit ==
    /\ RunOff /\ OutAtRest /\ WsOff /\ DefaultGlobals
    /\ MetricsOff /\ RegistryOff /\ RerunOff /\ CallOff

MetricsNext ==
    \/ \E r \in Runs : StreamStart(r)
    \/ \E r \in Runs, key \in MetricKeys, visible \in BOOLEAN : MetricIncr(r, key, visible)
    \/ \E r \in Runs, cleared \in BOOLEAN : StreamEnd(r, cleared)

SpecMetrics == MetricsInit /\ [][MetricsNext]_vars

\* ---- registry writes and a concurrent reader ----
RegistryInit ==
    /\ RunOff /\ OutAtRest /\ WsOff /\ DefaultGlobals
    /\ MetricsOff /\ RerunOff /\ CallOff
    /\ lists = <<DEFAULT_TRUSTED_SOURCES>> /\ reg_obj = 1
    /\ w_pc = "idle" /\ w_obj = 0 /\ w_i = 0
    /\ reg_before = DEFAULT_TRUSTED_SOURCES /\ published = {DEFAULT_TRUSTED_SOURCES}
    /\ rd_pc = "idle" /\ rd_obj = 0 /\ rd_seen = <<>>

RegistryNext ==
    \/ \E body \in PutBodies : PutBegin(body)
    \/ PutValidate
    \/ PutSwap
    \/ PutReturn
    \/ ResetSources
    \/ ReadBind
    \/ ReadNext
    \/ ReadReturn

SpecRegistry == RegistryInit /\ [][RegistryNext]_vars

\* ---- one request run twice on the same canned responses ----
CannedSearches ==
    {<<a, b, c>> :
        a \in {SearchOutcome(TRUE, <<>>),
                SearchOutcome(FALSE, <<SearchCallItem(<<Url(<<"blog", "example", "com">>, "a")>>)>>)},
        b \in {SearchOutcome(FALSE, <<>>),
                SearchOutcome(FALSE, <<SearchCallItem(<<Url(<<"blog", "example", "com">>, "b")>>)>>)},
        c \in {SearchOutcome(FALSE, <<SearchCallItem(<<Url(<<"WWW", "Reuters", "com">>, "a")>>)>>),
                SearchOutcome(FALSE, <<SearchCallItem(<<Url(<<"blog", "example", "com">>, "c")>>)>>)}}

CannedResponses ==
    [given : {TRUE},
     parse : {ParseReply("json", "primark"), ParseReply("unparsable", "")},
     industry : {RunReply},
     market : {RunReply, Raised, Reply("list", 1, "not_a_dict")},
     brand : {RunReply},
     detect : {Reply("list", 2, "full")},
     competitive : {RunReply, Raised},
     filter : {RunFilterReply},
     search : CannedSearches,
     judge : [1..3 -> {"true", "false"}],
     summary : {RunReply}]

TwiceInit ==
    /\ pc = "start"
    /\ entry \in {"research", "stream"}
    /\ question = [help |-> FALSE, metric_change |-> TRUE]
    /\ provider = "openai"
    /\ req_trusted_sources = NoList
    /\ parsed = NotParsed
    /\ max_per_category = MIN_MAX_HYPOTHESES /\ competitors = <<>> /\ id_scheme = "prefixed"
    /\ GenAtRest /\ tasks = <<>> /\ ProcAtRest
    /\ validated = EmptyByCategory /\ gate_before = EmptyByCategory
    /\ response = NoResponse /\ CountsZero /\ OutAtRest
    /\ WsOff /\ DefaultGlobals
    /\ MetricsOff /\ RegistryOff /\ CallOff
    /\ canned \in CannedResponses /\ run_no = 1 /\ first_run = NoResponse

TwiceNext ==
    \/ Classify
    \/ ParseQuestion(canned.parse)
    \/ GenIndustry(canned.industry)
    \/ GenMarket(canned.market)
    \/ GenBrand(canned.brand)
    \/ GenDetect(canned.detect)
    \/ GenCompetitive(canned.competitive)
    \/ GenFilter(canned.filter)
    \/ BeginProcessing
    \/ ProcessRaises
    \/ Pass1(canned.search[1], canned.judge[1])
    \/ Pass2(canned.search[2], canned.judge[2])
    \/ Pass3(canned.search[3], canned.judge[3])
    \/ Collect
    \/ QualityGate
    \/ Finalize(canned.summary)
    \/ Rerun

SpecTwice == TwiceInit /\ [][TwiceNext]_vars

\* ---- one request made to both entry points on the same canned responses ----
BothNext ==
    \/ Classify
    \/ ParseQuestion(canned.parse)
    \/ GenIndustry(canned.industry)
    \/ GenMarket(canned.market)
    \/ GenBrand(canned.brand)
    \/ GenDetect(canned.detect)
    \/ GenCompetitive(canned.competitive)
    \/ GenFilter(canned.filter)
    \/ BeginProcessing
    \/ ProcessRaises
    \/ Pass1(canned.search[1], canned.judge[1])
    \/ Pass2(canned.search[2], canned.judge[2])
    \/ Pass3(canned.search[3], canned.judge[3])
    \/ Collect
    \/ QualityGate
    \/ Finalize(canned.summary)
    \/ RunOtherEntry

SpecBoth == TwiceInit /\ [][BothNext]_vars

\* ---- one _score_source call ----
ScoreHosts ==
    { <<"reuters", "com">>, <<"www", "reuters", "com">>, <<"WWW", "Reuters", "com">>,
      <<"uk", "reuters", "com">>, <<"notreuters", "com">>, <<"bbc", "com">>,
      <<"example", "com">>, <<"www", "example", "com">>, <<>> }

\* Entries of a caller's list; the last one carries a domain and nothing else.
ScoreEntries ==
    { Entry(<<"reuters", "com">>, "Reuters", 10, "trusted"),
      Entry(<<"uk", "reuters", "com">>, "Reuters UK", 7, "reputable"),
      Entry(<<"Reuters", "com">>, "REUTERS", 9, "custom"),
      Entry(<<"www", "example", "com">>, "Example", 6, "custom"),
      [domain |-> <<"example", "com">>] }

ScoreLists ==
    {NoList} \cup {SomeList(l) : l \in SeqsUpTo(ScoreEntries, 2)}

ScoreInit ==
    /\ call_pc = "ready"
    /\ call_args \in [url : {Url(h, "/x") : h \in ScoreHosts}, trusted_sources : ScoreLists]
    /\ call_rets = <<>>
    /\ WsOff /\ RunOff /\ DefaultGlobals /\ MetricsOff /\ RegistryOff /\ RerunOff

ScoreNext == ScoreUrl \/ ScoreWwwUrl

SpecScore == ScoreInit /\ [][ScoreNext]_vars

\* ---- the classifier on the text of a question ----
MaxWords == 3

Words == {"help", "Help", "/help", "helpful", "capabilities", "supported metrics",
          "salience", "fell", "nike", ""}

ClassifyInit ==
    /\ call_pc = "ready" /\ call_args \in SeqsUpTo(Words, MaxWords) /\ call_rets = <<>>
    /\ pc = "start" /\ entry \in {"research", "stream"}
    /\ question = Tested(call_args)
    /\ provider = "anthropic" /\ req_trusted_sources = NoList /\ parsed = NotParsed
    /\ max_per_category = MIN_MAX_HYPOTHESES /\ competitors = <<>> /\ id_scheme = "prefixed"
    /\ GenAtRest /\ tasks = <<>> /\ ProcAtRest
    /\ validated = EmptyByCategory /\ gate_before = EmptyByCategory
    /\ response = NoResponse /\ CountsZero /\ OutAtRest
    /\ WsOff /\ DefaultGlobals /\ MetricsOff /\ RegistryOff /\ RerunOff

ClassifyNext == Classify

SpecClassify == ClassifyInit /\ [][ClassifyNext]_vars

\* ---- one extract_json call ----
MaxText == 6

Pieces == {"{", "}", "k", "q}", "F"}

ExtractInit ==
    /\ call_pc = "ready" /\ call_args \in SeqsUpTo(Pieces, MaxText) /\ call_rets = <<>>
    /\ WsOff /\ RunOff /\ DefaultGlobals /\ MetricsOff /\ RegistryOff /\ RerunOff

ExtractNext == ExtractJson

SpecExtract == ExtractInit /\ [][ExtractNext]_vars

\* ---- one build_summary call ----
\* Findings of the market category in one call.
MaxSummaryFindings == 2

\* Validated findings: the judge's evidence text may be empty, and a finding
\* handed to build_summary need not carry the key at all.
SummaryFindings ==
    {[status |-> "VALIDATED", hypothesis |-> h, evidence |-> e,
      source |-> Url(<<"www", "reuters", "com">>, "a")] : h \in {"h1", "h2"}, e \in {"", "e1"}}
    \cup {[status |-> "VALIDATED", hypothesis |-> h,
           source |-> Url(<<"www", "reuters", "com">>, "a")] : h \in {"h1", "h2"}}

SummaryInit ==
    /\ call_pc = "ready"
    /\ call_args \in {[market |-> m, brand |-> b, competitive |-> c] :
                        m \in SeqsUpTo(SummaryFindings, MaxSummaryFindings),
                        b \in SeqsUpTo(SummaryFindings, 1),
                        c \in SeqsUpTo(SummaryFindings, 1)}
    /\ call_rets = <<>>
    /\ WsOff /\ RunOff /\ DefaultGlobals /\ MetricsOff /\ RegistryOff /\ RerunOff

SummaryNext == BuildSummary

SpecSummary == SummaryInit /\ [][SummaryNext]_vars

----------------------------------------------------------------------------
(* Properties of a whole run (checked under Spec) *)

\* C1: for every question for which the help test is true or the metric-change
\* test is false, both entry points return their short-circuit payload (empty
\* hypothesis, validated and summary lists) having issued no web search and no
\* LLM call, and the web_searches and llm_calls they report are 0.
C1_ShortCircuitIssuesNoCalls ==
    (question.help \/ ~question.metric_change) =>
        /\ pc \in {"start", "final"}
        /\ searches_issued = 0 /\ llm_issued = 0
        /\ web_searches = 0 /\ llm_calls = 0
        /\ pc = "final" =>
            /\ response.kind \in {"help", "coaching"}
            /\ response.hypotheses = EmptyByCategory
            /\ response.validated_hypotheses = EmptyByCategory
            /\ response.summary = EmptySummary
            /\ response.telemetry.present =>
                response.telemetry.web_searches = 0 /\ response.telemetry.llm_calls = 0

\* research has answered an out-of-scope question with the coaching payload.
C1_Witness ==
    /\ pc = "final"
    /\ ~question.help /\ ~question.metric_change
    /\ response.kind = "coaching"
    /\ response.telemetry.present

\* C10: a run on a question that passes the classifier, with a provider other
\* than anthropic and openai, fails fast: it issues no web search, substitutes
\* no fallback hypotheses and does not end with a normal response.
C10_UnknownProviderFailsFast ==
    (provider \notin {"anthropic", "openai"} /\ ~question.help /\ question.metric_change) =>
        /\ searches_issued = 0
        /\ \A c \in CatSet : \A i \in 1..Len(hypotheses[c]) : hypotheses[c][i].origin # "fallback"
        /\ response.kind # "normal"

\* The run is over: it has returned, or an exception has left it.
RunOver == pc \in {"final", "failed"}

\* C11: when an LLM call made during a run fails with a provider billing/quota
\* error, the run ends with the credits-exhausted error kind (HTTP 402), not
\* with a normal response or a generic failure.
C11_BillingErrorEndsIn402 ==
    (RunOver /\ "billing" \in llm_errors) => response.kind = "error_402"

\* C12: no LLM text output makes a run end in error: when every LLM call of
\* the run returned text, whatever the text, the run does not end in a 500 or
\* a broken stream.
C12_LlmOutputNeverEndsRunInError ==
    llm_errors = {} => response.kind \notin {"error_500", "aborted"}

TotalHypotheses(hyps) == Len(hyps["market"]) + Len(hyps["brand"]) + Len(hyps["competitive"])

\* The run got as far as processing its hypotheses.
ProcessingBegun == pre_filter # EmptyByCategory /\ pc \notin {"gen_filter", "generated"}

\* C13: an exception raised while one hypothesis is processed is contained to
\* it: the run goes on, and when it is over every hypothesis has been
\* processed and has its own result, in both entry points.
C13_ExceptionContainedToHypothesis ==
    /\ (ProcessingBegun /\ RunOver) => Len(verdicts) = TotalHypotheses(hypotheses)
    /\ (ProcessingBegun /\ entry = "stream") => response.kind # "aborted"

ResultEvents(evs) == SelectSeq(evs, LAMBDA ev : ev.type = "hypothesis_result")

CountOf(evs, type) == Len(SelectSeq(evs, LAMBDA ev : ev.type = type))

\* The place of an event type in the lifecycle of a streaming run.
LifecycleRank(type) ==
    CASE type = "status_start" -> 1
      [] type = "parsed" -> 2
      [] type = "competitors" -> 3
      [] type = "hypotheses" -> 4
      [] type = "status_search" -> 5
      [] type = "hypothesis_result" -> 6
      [] type = "quality_filter" -> 7
      [] type = "executive_summary" -> 8
      [] OTHER -> 9

EventsInLifecycleOrder(evs) ==
    /\ \A i \in 1..(Len(evs) - 1) : LifecycleRank(evs[i].type) <= LifecycleRank(evs[i + 1].type)
    /\ \A i \in 1..(Len(evs) - 1) :
          evs[i].type = evs[i + 1].type => evs[i].type = "hypothesis_result"

\* C15: a streaming run emits its lifecycle events in order (start, parsed,
\* competitors, hypotheses, the per-hypothesis results, a quality-filter
\* notice if and only if the gate dropped a finding, executive summary,
\* final), and every streaming run that is over has emitted exactly one final
\* event, as the last event of the stream.
C15_StreamLifecycleEndsWithFinal ==
    entry = "stream" =>
        /\ EventsInLifecycleOrder(events)
        /\ pc \in {"summary", "final"} =>
              (CountOf(events, "quality_filter") = 1 <=> validated # gate_before)
        /\ pc \in {"summary", "final"} =>
              (CountOf(events, "quality_filter") = 0 <=> validated = gate_before)
        /\ RunOver =>
              /\ CountOf(events, "final") = 1
              /\ events[Len(events)].type = "final"

\* C17: every run of either entry point that is over has emitted exactly one
\* run-summary record, one RUN_LOG entry and one run event, whether it went
\* through the pipeline or short-circuited to help or to coaching.
C17_OneRunSummaryPerRun ==
    pc = "final" => run_log = 1 /\ run_events = 1

----------------------------------------------------------------------------
(* Properties of a run whose calls may fail (checked under SpecFaulty) *)

\* C14: every response a run returns is structurally complete, whatever
\* searches and LLM calls failed during the run: hypotheses and validated
\* findings hold exactly the keys market, brand and competitive, the summary
\* exactly macro_drivers, brand_drivers and competitive_drivers, and failing
\* calls alone never make the run end without such a response.
C14_ResponseStructurallyComplete ==
    /\ response.kind \in {"normal", "help", "coaching"} =>
          /\ DOMAIN response.hypotheses = CatSet
          /\ DOMAIN response.validated_hypotheses = CatSet
          /\ DOMAIN response.summary = SummaryKeys
    /\ RunOver => response.kind \in {"normal", "help", "coaching"}

\* A run returned its response after every search had raised and LLM calls
\* had failed, one of them on billing: fallback hypotheses, no findings.
C14_Witness ==
    /\ pc = "final"
    /\ response.kind = "normal"
    /\ llm_errors = {"exception", "billing"}
    /\ searches_issued > 0
    /\ response.validated_hypotheses = EmptyByCategory
    /\ response.summary = EmptySummary

----------------------------------------------------------------------------
(* Properties of process_one (checked under SpecProcess) *)

\* C2: whatever the searches return or raise and whatever the judge answers, no
\* per-hypothesis result is validated while the accepted evidence list is
\* empty, in the streaming process_one and in the other one.
C2_ValidatedHasEvidence ==
    /\ validation.validated => r1 # <<>>
    /\ item.validated => item.result_count > 0 /\ item.source # NoUrl
    /\ \A c \in CatSet : \A i \in 1..Len(validated[c]) : validated[c][i].source # NoUrl

\* A hypothesis validated by the broad pass after the specific one gave nothing.
C2_Witness ==
    /\ item.validated
    /\ item.second_pass_used
    /\ validated["market"] # <<>>

\* A step of the broad or the trusted-steered pass keeps a validated result
\* validated and changes the accepted result only on a validated answer.
LaterPassStepOk ==
    pc \in {"pass2", "pass3"} =>
        /\ validation.validated => validation'.validated
        /\ (validation' # validation \/ r1' # r1) =>
              (judge' = "true" /\ validation'.validated)

\* C3: within one hypothesis's passes the validation result is monotone: a
\* validated result is never changed back, and a later pass replaces the
\* accepted validation result and evidence list only when its own judge
\* answer is validated.
C3_ValidationMonotone == [][LaterPassStepOk]_vars

\* The trusted-steered pass judged its results not validated and the earlier
\* validated result stands.
C3_Witness ==
    /\ pc = "collect"
    /\ entry = "stream"
    /\ judge = "false"
    /\ validation.validated
    /\ validation.pass \in {1, 2}

----------------------------------------------------------------------------
(* Properties of the quality gate (checked under SpecGate) *)

TotalCount(v) == Len(v["market"]) + Len(v["brand"]) + Len(v["competitive"])

TrustedIn(list) == Cardinality({i \in 1..Len(list) : list[i].is_trusted})

TrustedCount(v) == TrustedIn(v["market"]) + TrustedIn(v["brand"]) + TrustedIn(v["competitive"])

GateOutcomeOk(v, pct) == TrustedCount(v) * 100 >= pct * TotalCount(v) \/ TotalCount(v) <= 1

\* C4, as stated: after the gate, for every positive threshold, the share of
\* trusted findings is at least the threshold or at most one finding remains.
C4_GateMeetsAnyPositiveThreshold ==
    (pc = "summary" /\ min_verified_pct > 0) => GateOutcomeOk(validated, min_verified_pct)

\* C4, for thresholds up to 100: after the gate, the share of trusted findings
\* is at least the threshold or at most one finding remains.
C4_GateMeetsThresholdUpTo100 ==
    (pc = "summary" /\ min_verified_pct \in 1..100) =>
        GateOutcomeOk(validated, min_verified_pct)

\* The gate removed findings and stopped, with several left, on the ratio.
C4_Witness ==
    /\ pc = "summary"
    /\ min_verified_pct \in 1..100
    /\ TotalCount(validated) < TotalCount(gate_before)
    /\ TotalCount(validated) >= 2
    /\ TrustedCount(gate_before) * 100 < min_verified_pct * TotalCount(gate_before)

RECURSIVE PickKept(_, _, _)
PickKept(list, keep, i) ==
    IF i > Len(list) THEN <<>>
    ELSE (IF i \in keep THEN <<list[i]>> ELSE <<>>) \o PickKept(list, keep, i + 1)

\* C5: the gate acts only by removal: per category the findings after it are a
\* subsequence of those before it, unchanged, every trusted finding is kept,
\* and if there was a finding before the gate there is one after it.
C5_GateOnlyRemoves ==
    pc = "summary" =>
        /\ \A c \in CatSet :
             \E keep \in SUBSET (1..Len(gate_before[c])) :
                /\ \A i \in 1..Len(gate_before[c]) : gate_before[c][i].is_trusted => i \in keep
                /\ validated[c] = PickKept(gate_before[c], keep, 1)
        /\ TotalCount(gate_before) >= 1 => TotalCount(validated) >= 1

\* The gate removed findings while a trusted one scored below them stayed.
C5_Witness ==
    /\ pc = "summary"
    /\ TotalCount(validated) < TotalCount(gate_before)
    /\ \E c \in CatSet : \E i \in 1..Len(validated[c]) :
          validated[c][i].is_trusted /\ validated[c][i].trust_score < UnverifiedScore

----------------------------------------------------------------------------
(* Properties of generate_hypotheses (checked under SpecGen) *)

IdsOf(hyps) == {hyps[i].id : i \in 1..Len(hyps)}

\* C6: after generate_hypotheses returns, no category that was non-empty before
\* the relevance filter is empty, whatever set of ids the filter call flagged;
\* where removal would have emptied a category, exactly its first original
\* hypothesis is kept.
C6_FilterNeverEmptiesCategory ==
    pc = "generated" =>
        \A c \in CatSet :
            pre_filter[c] # <<>> =>
                /\ hypotheses[c] # <<>>
                /\ IdsOf(pre_filter[c]) \subseteq remove_ids => hypotheses[c] = <<pre_filter[c][1]>>

\* The filter flagged every hypothesis of a category that held more than one,
\* and left another category alone.
C6_Witness ==
    /\ pc = "generated"
    /\ \E c \in CatSet : Len(pre_filter[c]) > 1 /\ IdsOf(pre_filter[c]) \subseteq remove_ids
    /\ \E c \in CatSet : IdsOf(pre_filter[c]) \cap remove_ids = {}

\* C7: for every cap N and every outcome of the generation LLM calls,
\* generate_hypotheses returns all three categories, each holding at least 1
\* and at most N hypotheses; a category whose LLM output yielded no hypothesis
\* got that category's fallback set before the relevance filter ran.
C7_EachCategoryWithinCap ==
    pc = "generated" =>
        /\ DOMAIN hypotheses = CatSet
        /\ \A c \in CatSet :
            /\ Len(hypotheses[c]) \in 1..max_per_category
            /\ Len(pre_filter[c]) \in 1..max_per_category
            /\ yielded[c] = 0 =>
                \A i \in 1..Len(pre_filter[c]) : pre_filter[c][i].origin = "fallback"
            /\ yielded[c] > 0 =>
                /\ Len(pre_filter[c]) = yielded[c]
                /\ \A i \in 1..Len(pre_filter[c]) : pre_filter[c][i].origin = "llm"

\* A cap below the size of the fixed fallback set, one category on its
\* fallback and another whose LLM output filled the cap.
C7_Witness ==
    /\ pc = "generated"
    /\ max_per_category < 3
    /\ \E c \in {"market", "brand"} :
        yielded[c] = 0 /\ Len(pre_filter[c]) = max_per_category
    /\ \E c \in CatSet : yielded[c] = max_per_category

----------------------------------------------------------------------------
(* Properties of openai_web_search (checked under SpecSearch) *)

\* C8: a rate-limit failure is retried up to 3 times with backoff and is
\* propagated only after the 3rd retry was rate-limited too, with at most 4
\* search-tool calls; any failure that is neither a rate limit nor a
\* temperature rejection is propagated at once.
C8_RateLimitRetriedThreeTimes ==
    /\ tool_calls <= max_retries + 1
    /\ (ws_pc = "raised" /\ ws_error = "rate_limit") => Len(waits) = max_retries
    /\ (ws_pc = "raised" /\ ws_error = "other") => resp = <<>>

\* The host of a URL is a blocklisted social-media domain or a subdomain of one.
HostIsSocial(url) ==
    \E i \in 1..Len(SOCIAL_MEDIA_DOMAINS) :
        \/ hostname(url) = SOCIAL_MEDIA_DOMAINS[i]
        \/ EndsWithDot(hostname(url), SOCIAL_MEDIA_DOMAINS[i])

CitedUrls(items) == UNION {Range(items[i].urls) : i \in 1..Len(items)}

\* C9: no source returned by openai_web_search has a URL whose host is a
\* blocklisted social-media domain or a subdomain of one, with or without
\* analysis prose, the first pseudo-source's URL included.
C9_NoSocialMediaSource ==
    \A i \in 1..Len(ws_result) : ~HostIsSocial(ws_result[i].url)

\* A response with prose citing a subdomain of a blocklisted domain beside
\* another site, so that the pseudo-source carries a URL.
C9_Witness ==
    /\ ws_pc = "returned"
    /\ HasMessageText(resp)
    /\ \E u \in CitedUrls(resp) : HostIsSocial(u) /\ ~is_social_media_exact(u)
    /\ ws_result # <<>>
    /\ ws_result[1].url # EmptyUrl

----------------------------------------------------------------------------
(* Properties of the streaming run's results (checked under Spec) *)

\* C16: a streaming run with T generated hypotheses that is over has emitted
\* exactly T per-hypothesis result events, the k-th carrying completed=k and
\* total=T, and each hypothesis has contributed at most one finding, which
\* carries one source.
C16_OneResultEventPerHypothesis ==
    (entry = "stream" /\ ProcessingBegun /\ RunOver) =>
        LET results == ResultEvents(events)
            T == TotalHypotheses(hypotheses)
        IN /\ Len(results) = T
           /\ \A k \in 1..Len(results) : results[k].completed = k /\ results[k].total = T
           /\ \A c \in CatSet :
                /\ Len(gate_before[c]) <= Len(hypotheses[c])
                /\ \A i \in 1..Len(gate_before[c]) : gate_before[c][i].source # NoUrl

----------------------------------------------------------------------------
(* Properties of concurrent runs (checked under SpecMetrics) *)

\* C18: with two runs in flight, every increment caused by a call a run issued
\* is added to that run's metrics and to no other run's, with or without the
\* context variable visible to the executing thread, and no run loses
\* increments because another run started or finished.
C18_MetricsStayWithTheirRun ==
    \A r \in Runs : m_pc[r] # "idle" => run_metrics[r] = issued[r]

----------------------------------------------------------------------------
(* Properties of the shared registry (checked under SpecRegistry) *)

\* An entry with every key the readers use.
CompleteEntry(src) == {"domain", "name", "trust_score", "tier"} \subseteq DOMAIN src

\* C19: at every interleaving of registry writes with a concurrent scoring
\* loop, the reader has seen entries of one complete list the registry held,
\* the previous one or the new one, never a partly updated one; and a PUT
\* rejected by validation leaves the shared registry unchanged.
C19_RegistrySwappedWhole ==
    /\ registry = lists[reg_obj]
    /\ \A l \in published : \A i \in 1..Len(l) : CompleteEntry(l[i])
    /\ rd_pc \in {"loop", "done"} =>
          \E l \in published :
              /\ rd_seen = Prefix(l, Len(rd_seen))
              /\ rd_pc = "done" => rd_seen = l
              /\ l = lists[rd_obj]
    /\ w_pc = "rejected" => registry = reg_before

\* The reader finished on the previous list, which a PUT with an entry that
\* needed its defaults filled in replaced while the loop was running.
C19_Witness ==
    /\ rd_pc = "done"
    /\ rd_seen = DEFAULT_TRUSTED_SOURCES
    /\ rd_obj # reg_obj
    /\ w_pc = "updated"
    /\ Len(registry) = 2
    /\ registry[2] = Normalise([domain |-> <<"news", "org">>])

----------------------------------------------------------------------------
(* Properties of a repeated run (checked under SpecTwice) *)

----------------------------------------------------------------------------
(* Properties of _score_source (checked under SpecScore) *)

\* The list a call scores against: the caller's when it holds an entry, else the registry.
ListInUse == IF call_args.trusted_sources.given /\ call_args.trusted_sources.list # <<>>
             THEN call_args.trusted_sources.list ELSE registry

\* The host of a URL, lowercased, without one leading "www.".
BareHost(url) ==
    LET h == LowerHost(url.host)
    IN IF h # <<>> /\ Head(h) = "www" THEN Tail(h) ELSE h

IsDotSuffix(d, h) ==
    \E k \in 1..Len(h) : Len(h) - k = Len(d) /\ [i \in 1..Len(d) |-> h[k + i]] = d

Matches(e, url) ==
    \/ LowerHost(e.domain) = BareHost(url)
    \/ IsDotSuffix(LowerHost(e.domain), BareHost(url))

\* What the first matching entry of the list gives, the low default when none matches.
ExpectedScore(url) ==
    LET l == ListInUse
    IN IF \E i \in 1..Len(l) : Matches(l[i], url)
       THEN LET i == CHOOSE j \in 1..Len(l) :
                        Matches(l[j], url) /\ \A k \in 1..(j - 1) : ~Matches(l[k], url)
            IN /\ call_rets[1].is_trusted
               /\ "trust_score" \in DOMAIN l[i] => call_rets[1].trust_score = l[i].trust_score
               /\ "tier" \in DOMAIN l[i] => call_rets[1].tier = l[i].tier
               /\ "name" \in DOMAIN l[i] => call_rets[1].source_name = l[i].name
       ELSE /\ ~call_rets[1].is_trusted
            /\ call_rets[1].tier = "unverified"
            /\ call_rets[1].trust_score = UnverifiedScore

\* C21 as stated: _score_source returns the score, tier and name of the first
\* entry, in list order, whose domain is the URL's host (lowercased, one leading
\* "www." stripped) or a dot-suffix of it, and the low default with tier
\* "unverified" and is_trusted false when none matches; two URLs whose hosts
\* differ only by a leading "www." get identical results.
C21_FirstMatchAndWwwInsensitive ==
    /\ call_pc \in {"returned", "again"} => ExpectedScore(call_args.url)
    /\ call_pc = "again" => call_rets[2] = call_rets[1]

\* C21, amended: the first-match contract as stated; the two results are
\* identical when the host without the extra "www." does not itself begin
\* with "www." (only one leading "www." is stripped).
C21_FirstMatchAndSingleWwwInsensitive ==
    /\ call_pc \in {"returned", "again"} => ExpectedScore(call_args.url)
    /\ (call_pc = "again" /\ Lower(Head(call_args.url.host)) # "www")
          => call_rets[2] = call_rets[1]

\* A host under a listed domain, matched by two entries of the caller's list,
\* scored with and without "www.".
C21_Witness ==
    /\ call_pc = "again"
    /\ call_args.url.host = <<"uk", "reuters", "com">>
    /\ call_args.trusted_sources.given /\ Len(call_args.trusted_sources.list) = 2
    /\ \A i \in 1..2 : Matches(call_args.trusted_sources.list[i], call_args.url)
    /\ call_args.trusted_sources.list[1] # call_args.trusted_sources.list[2]
    /\ call_rets[1].is_trusted

----------------------------------------------------------------------------
(* Properties of the classifier (checked under SpecClassify) *)

FirstWord(q) ==
    LET idx == {i \in 1..Len(q) : q[i] # ""}
    IN IF idx = {} THEN "" ELSE q[CHOOSE i \in idx : \A j \in idx : i <= j]

\* The question starts with help or /help, in any case, or holds a help phrase.
AsksForHelp(q) ==
    \/ FirstWord(q) \in {"help", "Help", "/help"}
    \/ \E i \in 1..Len(q) : q[i] \in {"capabilities", "supported metrics"}

\* The question holds a metric term and a change term.
NamesMetricChange(q) ==
    /\ \E i \in 1..Len(q) : q[i] = "salience"
    /\ \E i \in 1..Len(q) : q[i] \in {"fell", "supported metrics"}

HelpBranchRan == pc = "final" /\ response # NoResponse /\ response.kind = "help"
CoachingBranchRan == pc = "final" /\ response # NoResponse /\ response.kind = "coaching"
PipelineBranchRan == pc = "parse" /\ response = NoResponse

\* C22: the three-way decision is taken in the order help, out-of-scope,
\* in-scope; exactly one branch runs per question, and a question that matches
\* a help prefix or phrase gets the help payload even when it also holds a
\* metric term and a change term.
C22_ClassifierPriorityOrder ==
    pc # "start" =>
        /\ HelpBranchRan <=> AsksForHelp(call_args)
        /\ CoachingBranchRan <=> (~AsksForHelp(call_args) /\ ~NamesMetricChange(call_args))
        /\ PipelineBranchRan <=> (~AsksForHelp(call_args) /\ NamesMetricChange(call_args))
        /\ Cardinality({b \in {"help", "coaching", "pipeline"} :
                           \/ b = "help" /\ HelpBranchRan
                           \/ b = "coaching" /\ CoachingBranchRan
                           \/ b = "pipeline" /\ PipelineBranchRan}) = 1

\* "help salience fell": a help prefix with a metric term and a change term.
C22_Witness ==
    /\ call_args = <<"help", "salience", "fell">>
    /\ HelpBranchRan

----------------------------------------------------------------------------
(* Properties of extract_json (checked under SpecExtract) *)

\* The fenced blocks of a text: a fence, "{" ... "}", a fence.
FencedBlocks(text) ==
    {b \in (1..Len(text)) \X (1..Len(text)) :
        /\ b[1] + 1 < b[2] /\ b[2] < Len(text)
        /\ text[b[1]] = "F" /\ text[b[1] + 1] = "{"
        /\ text[b[2]] = "}" /\ text[b[2] + 1] = "F"}

\* The one the search finds: leftmost start, then nearest end.
FirstFenced(text) ==
    CHOOSE b \in FencedBlocks(text) :
        \A c \in FencedBlocks(text) : b[1] < c[1] \/ (b[1] = c[1] /\ b[2] <= c[2])

Opening(text, a, b) == Cardinality({i \in a..b : text[i] = "{"})
Closing(text, a, b) == Cardinality({i \in a..b : text[i] \in {"}", "q}"}})

\* Positions where the braces from the first "{" are balanced.
BalancedEnds(text) ==
    {j \in 1..Len(text) :
        /\ \E i \in 1..j : text[i] = "{"
        /\ LET first == CHOOSE i \in 1..j : text[i] = "{" /\ \A k \in 1..(i - 1) : text[k] # "{"
           IN Opening(text, first, j) = Closing(text, first, j)}

FromFirstBrace(text) ==
    LET first == CHOOSE i \in 1..Len(text) : text[i] = "{" /\ \A k \in 1..(i - 1) : text[k] # "{"
        j == CHOOSE a \in BalancedEnds(text) : \A b \in BalancedEnds(text) : a <= b
    IN SubSeq(text, first, j)

Parses(t) == ~json_loads(t).raised

ExpectedMapping(text) ==
    IF /\ FencedBlocks(text) # {}
       /\ Parses(SubSeq(text, FirstFenced(text)[1] + 1, FirstFenced(text)[2]))
    THEN json_loads(SubSeq(text, FirstFenced(text)[1] + 1, FirstFenced(text)[2])).value
    ELSE IF BalancedEnds(text) # {} /\ Parses(FromFirstBrace(text))
         THEN json_loads(FromFirstBrace(text)).value
         ELSE EmptyMapping

\* C23: extract_json never raises; it returns the mapping of a fenced JSON
\* block when one is present and parses, otherwise the mapping of the text from
\* the first "{" to its balanced "}", and the empty mapping when there is no
\* "{", the braces never balance, or the selected text does not parse.
C23_ExtractJsonTotal ==
    call_pc = "returned" =>
        /\ ~call_rets[1].raised
        /\ call_rets[1].value = ExpectedMapping(call_args)

\* A text whose fenced block parses while its first "{" is never closed.
C23_Witness ==
    /\ call_pc = "returned"
    /\ call_args = <<"{", "F", "{", "k", "}", "F">>
    /\ call_rets[1] = Returned(<<"k">>)

\* The balanced text ends inside a string and does not parse.
C23_WitnessUnparsable ==
    /\ call_pc = "returned"
    /\ call_args = <<"{", "q}", "}">>
    /\ call_rets[1] = Returned(EmptyMapping)

----------------------------------------------------------------------------
(* Properties of the passes of process_one (checked under SpecProcess) *)

\* The broad query of a hypothesis: its own search_query_broad when it has
\* one, else the query refined from the specific one.
BroadQueryOf(hyp) ==
    IF hyp.search_query_broad # "" THEN PlainQuery(hyp.search_query_broad)
    ELSE refine_query(Query(hyp), parsed.brand)

\* The step after pass 1 issues the broad search exactly when pass 1 found
\* nothing or was judged not validated and the broad query differs from the
\* specific one, and it searches for the broad query.
BroadPassStepOk ==
    pc = "pass2" =>
        LET hyp == tasks[1].hyp
            wanted == /\ (r1 = <<>> \/ ~validation.validated)
                      /\ BroadQueryOf(hyp) # PlainQuery(Query(hyp))
        IN /\ (queries' # queries) <=> wanted
           /\ (queries' # queries) => queries' = Append(queries, BroadQueryOf(hyp))

\* C24: the broad search of a hypothesis is issued exactly when pass 1
\* returned no results or was judged not validated, a broad query is available
\* and it differs from the specific query; the broad query is the hypothesis's
\* own search_query_broad, else the one refine_query makes of the specific query.
C24_BroadPassIssuedExactlyWhenDue == [][BroadPassStepOk]_vars

\* The list the streaming run scores and steers by: req.trusted_sources or _trusted_sources.
RegistryInUse == IF req_trusted_sources.given /\ req_trusted_sources.list # <<>>
                 THEN req_trusted_sources.list ELSE registry

HasTrustedTierDomain == \E i \in 1..Len(RegistryInUse) : RegistryInUse[i].tier = "trusted"

SteeredSearchIssued == queries' # queries /\ queries'[Len(queries')].sites # <<>>

\* After passes 1-2 of a streaming run: a validated hypothesis whose leading
\* source is not of tier "trusted" gets the steered search.
SteeredPassStepOk ==
    (pc = "pass3" /\ entry = "stream") =>
        ((/\ validation.validated
          /\ r1 # <<>> /\ r1[1].tier # "trusted"
          /\ HasTrustedTierDomain) => SteeredSearchIssued)

\* C25: in a streaming run every hypothesis that is validated after passes 1-2
\* and whose leading evidence source does not have tier "trusted" (a reputable,
\* custom or unmatched source) gets a pass-3 search steered to the registry's
\* trusted-tier domains, provided the registry in use has such a domain.
C25_SteeredPassForEveryNonTrustedTierLead == [][SteeredPassStepOk]_vars

\* A step of pass 3 keeps a validated hypothesis validated, swaps the accepted
\* evidence only for a steered result whose leading source is trusted and
\* whose judge answer is validated, and searches only when the accepted
\* leading source is not trusted.
SteeredPassKeepsResult ==
    pc = "pass3" =>
        /\ validation.validated => validation'.validated
        /\ (r1' # r1 \/ validation' # validation) =>
              /\ SteeredSearchIssued
              /\ r1' # <<>> /\ r1'[1].is_trusted
              /\ judge' = "true" /\ validation'.validated /\ validation'.pass = 3
        /\ (r1 # <<>> /\ r1[1].is_trusted) => queries' = queries

\* C26: pass 3 never loses or weakens an accepted result: a hypothesis validated
\* before it is validated after it whatever the steered search does; the
\* evidence is swapped only when the steered search's leading source is trusted
\* and its judge answer is validated; pass 3 is not run when the accepted
\* leading source is already trusted.
C26_SteeredPassNeverLosesResult == [][SteeredPassKeepsResult]_vars

\* The steered search was issued and raised or found nothing trusted; the
\* result accepted before it stands.
C26_Witness ==
    /\ pc = "collect" /\ entry = "stream"
    /\ queries # <<>> /\ queries[Len(queries)].sites # <<>>
    /\ judge = "none"
    /\ validation.validated /\ validation.pass \in {1, 2}
    /\ r1 # <<>> /\ ~r1[1].is_trusted

\* The queries of one hypothesis so far are the specific one, then the broad
\* one, then the steered one, each at most once; the judge calls are at most
\* one per pass, in order, each on a non-empty result list.
PassesInOrder ==
    /\ Len(queries) <= 3
    /\ \A i \in 1..Len(queries) : \A j \in 1..Len(queries) :
          (i < j /\ queries[i].sites # <<>>) => FALSE
    /\ Cardinality({i \in 1..Len(queries) : queries[i].sites # <<>>}) <= 1
    /\ Cardinality({i \in 1..Len(queries) : queries[i].sites = <<>>}) <= 2
    /\ queries # <<>> => queries[1] = PlainQuery(Query(tasks[1].hyp))
    /\ Len(judged) <= Len(queries)
    /\ \A i \in 1..Len(judged) :
          /\ judged[i].results > 0
          /\ judged[i].pass \in 1..3
          /\ \A j \in 1..Len(judged) : i < j => judged[i].pass < judged[j].pass

PassStepInOrder ==
    /\ (pc \in {"pass1", "pass2", "pass3"}) => PassesInOrder'
    /\ pc = "pass1" => (queries = <<>> /\ judged = <<>>)
    /\ (pc = "pass2" /\ queries' # queries) =>
          /\ Len(queries) = 1
          /\ ~validation.validated
          /\ queries'[2].sites = <<>>
    /\ (pc = "pass3" /\ queries' # queries) =>
          /\ entry = "stream"
          /\ validation.validated
          /\ queries'[Len(queries')].sites # <<>>
    /\ Len(judged') <= Len(judged) + 1
    /\ llm_issued' - llm_issued <= Len(judged') - Len(judged) \/ pc \notin {"pass1", "pass2", "pass3"}

\* C27: within one hypothesis at most three searches are issued, in the order
\* specific, broad, steered; the broad one only after pass 1 is over and never
\* when pass 1 was validated; the steered one only after pass 2 and only when
\* the hypothesis is validated then; the judge is called at most once per pass,
\* only on a non-empty result list.
C27_PassesOrderedAndBounded == [][PassStepInOrder]_vars

\* A hypothesis that went through the three searches and three judge calls.
C27_Witness ==
    /\ pc = "collect" /\ entry = "stream"
    /\ Len(queries) = 3
    /\ Len(judged) = 3

----------------------------------------------------------------------------
(* Which findings the quality gate drops (checked under SpecGate) *)

\* Where a finding stood before the gate, in pipeline order: the categories in
\* the order market, brand, competitive, then the place in the category.
CatRank(c) == CASE c = "market" -> 1 [] c = "brand" -> 2 [] OTHER -> 3

Places(v) == {<<c, i>> : c \in CatSet, i \in 1..MaxFindings} \cap
             UNION {{<<c, i>> : i \in 1..Len(v[c])} : c \in CatSet}

Earlier(p, q) == CatRank(p[1]) < CatRank(q[1]) \/ (p[1] = q[1] /\ p[2] < q[2])

UnverifiedPlaces(v) == {p \in Places(v) : ~v[p[1]][p[2]].is_trusted}

\* How many unverified findings go before this one: a lower score first, then
\* the earlier one in the pipeline.
DropRank(v, p) ==
    Cardinality({q \in UnverifiedPlaces(v) :
        \/ v[q[1]][q[2]].trust_score < v[p[1]][p[2]].trust_score
        \/ v[q[1]][q[2]].trust_score = v[p[1]][p[2]].trust_score /\ Earlier(q, p)})

\* After j removals the ratio meets the threshold or one finding is left.
GateSatisfiedAfter(v, pct, j) ==
    \/ TrustedCount(v) * 100 >= pct * (TotalCount(v) - j)
    \/ TotalCount(v) - j <= 1

RECURSIVE WithoutPlaces(_, _, _, _)
WithoutPlaces(list, c, i, gone) ==
    IF i > Len(list) THEN <<>>
    ELSE (IF <<c, i>> \in gone THEN <<>> ELSE <<list[i]>>) \o WithoutPlaces(list, c, i + 1, gone)

\* The findings left when the k first-ranked unverified findings are dropped.
AfterDropping(v, k) ==
    [c \in CatSet |-> WithoutPlaces(v[c], c, 1, {p \in UnverifiedPlaces(v) : DropRank(v, p) < k})]

GateDropped == validated # gate_before

NothingToDo(v, pct) == TrustedCount(v) * 100 >= pct * TotalCount(v) \/ TotalCount(v) = 0

\* C28 as stated: when the gate drops findings, it drops exactly the k
\* unverified findings of lowest trust_score, ties in pipeline order, k being the
\* least number of removals after which the trusted ratio reaches the threshold
\* or one finding remains; nothing is dropped when the ratio is already there
\* or there are no findings.
C28_GateDropsLeastLowestUnverified ==
    pc = "summary" =>
        /\ GateDropped =>
              \E k \in 1..Cardinality(UnverifiedPlaces(gate_before)) :
                 /\ GateSatisfiedAfter(gate_before, min_verified_pct, k)
                 /\ \A j \in 0..(k - 1) : ~GateSatisfiedAfter(gate_before, min_verified_pct, j)
                 /\ validated = AfterDropping(gate_before, k)
        /\ NothingToDo(gate_before, min_verified_pct) => ~GateDropped

\* C28, amended: k is the least number of removals after which the trusted
\* ratio reaches the threshold, one finding remains, or no unverified finding
\* is left (a threshold above 100 is not reached by removing them all).
C28_GateDropsLeastLowestUnverifiedOrAll ==
    pc = "summary" =>
        /\ GateDropped =>
              \E k \in 1..Cardinality(UnverifiedPlaces(gate_before)) :
                 /\ \/ GateSatisfiedAfter(gate_before, min_verified_pct, k)
                    \/ k = Cardinality(UnverifiedPlaces(gate_before))
                 /\ \A j \in 0..(k - 1) : ~GateSatisfiedAfter(gate_before, min_verified_pct, j)
                 /\ validated = AfterDropping(gate_before, k)
        /\ NothingToDo(gate_before, min_verified_pct) => ~GateDropped

\* The gate dropped the first of the unverified findings of two categories and
\* kept the later one.
C28_Witness ==
    /\ pc = "summary"
    /\ TotalCount(gate_before) - TotalCount(validated) = 1
    /\ Cardinality(UnverifiedPlaces(gate_before)) >= 2
    /\ Len(validated["market"]) < Len(gate_before["market"])
    /\ \E i \in 1..Len(validated["brand"]) : ~validated["brand"][i].is_trusted

----------------------------------------------------------------------------
(* What the relevance filter removes (checked under SpecGen) *)

\* C29: the relevance filter removes only hypotheses whose id is flagged: every
\* hypothesis missing after it has a flagged id, the unflagged ones keep their
\* content and order, and when the filter call raises, answers text that does
\* not parse, or flags nothing, the three categories are as they were.
C29_FilterRemovesOnlyFlagged ==
    pc = "generated" =>
        /\ \A c \in CatSet :
              \E keep \in SUBSET (1..Len(pre_filter[c])) :
                 /\ hypotheses[c] = PickKept(pre_filter[c], keep, 1)
                 /\ \A i \in 1..Len(pre_filter[c]) :
                       /\ i \notin keep => pre_filter[c][i].id \in remove_ids
                       /\ pre_filter[c][i].id \notin remove_ids => i \in keep
        /\ remove_ids = {} => hypotheses = pre_filter

\* The filter flagged the first of several hypotheses of a category: it is gone
\* and the others stand.
C29_Witness ==
    /\ pc = "generated"
    /\ \E c \in CatSet :
          /\ Len(pre_filter[c]) >= 2
          /\ pre_filter[c][1].id \in remove_ids
          /\ pre_filter[c][2].id \notin remove_ids
          /\ hypotheses[c] = Tail(pre_filter[c])

----------------------------------------------------------------------------
(* The temperature retry of openai_web_search (checked under SpecSearch) *)

\* A step in which a call carrying temperature was rejected for it.
TemperatureRejectedStep == use_temperature /\ ~use_temperature'

\* C30: within one openai_web_search invocation, whenever a call that carried
\* temperature is rejected for it, on whichever attempt, a further call without
\* temperature follows instead of the search failing or returning; no call
\* after that carries temperature, and the rejection does not use up one of
\* the 3 rate-limit retries.
TemperatureRetryStepOk ==
    /\ TemperatureRejectedStep => ws_pc' = "call" /\ attempt' = attempt
    /\ ~use_temperature => ~use_temperature'

C30_TemperatureRetriedOnceAtNoCost == [][TemperatureRetryStepOk]_vars

----------------------------------------------------------------------------
(* Order and size of the list openai_web_search returns (checked under SpecSearch) *)

\* The URLs of a response in the order the collecting loop meets them.
RECURSIVE Discovered(_)
Discovered(items) ==
    IF items = <<>> THEN <<>> ELSE Head(items).urls \o Discovered(Tail(items))

\* The elements of a, in their order, are found in b.
RECURSIVE IsSubseq(_, _)
IsSubseq(a, b) ==
    IF a = <<>> THEN TRUE
    ELSE IF b = <<>> THEN FALSE
    ELSE IF Head(a) = Head(b) THEN IsSubseq(Tail(a), Tail(b))
    ELSE IsSubseq(a, Tail(b))

\* The URLs of the returned sources that have a given score, in the order returned.
UrlsScored(result, score) ==
    LET tied == SelectSeq(result, LAMBDA s : s.trust_score = score /\ s.url # EmptyUrl)
    IN [i \in 1..Len(tied) |-> tied[i].url]

\* C31: the list openai_web_search returns is ordered by non-increasing
\* trust_score, sources of equal trust_score keep the order in which they were
\* discovered, and the list has at most max_sources entries, with analysis
\* prose (the pseudo-source counted) and without.
C31_ResultSortedStableAndCapped ==
    ws_pc = "returned" =>
        /\ Len(ws_result) <= max_sources
        /\ \A i, j \in 1..Len(ws_result) :
              i < j => ws_result[i].trust_score >= ws_result[j].trust_score
        /\ \A i \in 1..Len(ws_result) :
              IsSubseq(UrlsScored(ws_result, ws_result[i].trust_score), Discovered(resp))

\* Two sources of equal score are returned in the order they were met, and a
\* response with more sources than max_sources was cut.
C31_Witness ==
    /\ ws_pc = "returned"
    /\ Len(ws_result) >= 2
    /\ ws_result[1].trust_score = ws_result[2].trust_score
    /\ ws_result[1].url # ws_result[2].url

\* A response with prose and more distinct sources than max_sources.
C31_WitnessCut ==
    /\ ws_pc = "returned"
    /\ HasMessageText(resp)
    /\ Len(ws_result) = max_sources
    /\ Cardinality({u \in CitedUrls(resp) : ~HostIsSocial(u)}) > max_sources

\* C32: the candidate list of openai_web_search is de-duplicated by URL:
\* whatever the response (structured sources repeating a URL, annotations
\* repeating a structured source, message items before or after search-call
\* items), no two entries of the returned list have the same URL.
C32_ResultHasNoRepeatedUrl ==
    ws_pc = "returned" =>
        \A i, j \in 1..Len(ws_result) : i < j => ws_result[i].url # ws_result[j].url

----------------------------------------------------------------------------
(* A run with its own trusted-source list (checked under SpecProcess) *)

\* Some entry of the run's own list matches the URL.
OverrideMatches(url) ==
    \E i \in 1..Len(req_trusted_sources.list) : Matches(req_trusted_sources.list[i], url)

\* Every source of the result in hand is scored against the run's own list only.
ScoredAgainstOverride ==
    \A i \in 1..Len(r1) : r1[i].is_trusted <=> OverrideMatches(r1[i].url)

\* The site: filters of the steered search are the trusted-tier domains of the
\* run's own list.
SiteFiltersFromOverride ==
    \A k \in 1..Len(queries) :
        queries[k].sites # <<>> =>
            queries[k].sites = Prefix(TrustedTierDomains(req_trusted_sources.list), 5)

OverrideStepOk ==
    req_trusted_sources.given =>
        /\ ScoredAgainstOverride'
        /\ SiteFiltersFromOverride'
        /\ registry' = registry

\* C33: when a run supplies its own trusted-source list (an empty list
\* included), every source scored during the run, in every pass and by either
\* entry point, is scored against that list only, the pass-3 site: filters are
\* taken from that list, and the shared registry is the same before and after.
C33_OverrideListUsedAlone == [][OverrideStepOk]_vars

----------------------------------------------------------------------------
(* The search count a run reports (checked under Spec) *)

----------------------------------------------------------------------------
(* Escalations of one hypothesis (checked under SpecProcess) *)

\* Searches of pass 2 and pass 3 issued for the hypothesis in hand.
EscalationSearches == IF queries = <<>> THEN 0 ELSE Len(queries) - 1

\* C35: escalations are recorded: the run's escalation count
\* (web_search_retries) is the number of second-pass and third-pass searches
\* issued, and a hypothesis's result flags an escalation (second_pass_used)
\* exactly when a pass-2 or a pass-3 search was issued for it.
C35_EscalationsRecorded ==
    pc = "collect" =>
        /\ web_search_retries = EscalationSearches
        /\ ProcessItem(entry, tasks[1].hyp, r1, validation, second_pass_used).second_pass_used
             <=> EscalationSearches > 0

----------------------------------------------------------------------------
(* Properties of build_summary (checked under SpecSummary) *)

\* The evidence text of a finding is absent or empty.
NoEvidenceText(finding) == "evidence" \notin DOMAIN finding \/ finding.evidence = ""

\* C36: build_summary is a pure reshaping with no filtering: for each category
\* the summary list has exactly one entry per validated finding, in the same
\* order (market to macro_drivers, brand to brand_drivers, competitive to
\* competitive_drivers), and each entry's driver text is the finding's
\* evidence text, or the hypothesis text whenever the evidence text is absent
\* or empty.
C36_SummaryReshapesEveryFinding ==
    call_pc = "returned" =>
        \A k \in SummaryKeys :
            LET findings == call_args[CategoryOf(k)]
                drivers == call_rets[1][k]
            IN /\ Len(drivers) = Len(findings)
               /\ \A i \in 1..Len(findings) :
                     /\ drivers[i].hypothesis = findings[i].hypothesis
                     /\ drivers[i].driver = IF NoEvidenceText(findings[i])
                                            THEN findings[i].hypothesis
                                            ELSE findings[i].evidence

----------------------------------------------------------------------------
(* The two entry points on one request (checked under SpecBoth) *)

\* What the claim compares of a finding: hypothesis, evidence and source URL.
FindingCore(f) == [hypothesis |-> f.hypothesis, evidence |-> f.evidence, source |-> f.source]

FindingCores(v) == [c \in CatSet |-> [i \in 1..Len(v[c]) |-> FindingCore(v[c][i])]]

\* C37: the streaming variant is the same pipeline as the non-streaming entry
\* point: for the same question, configuration, registry and canned LLM and
\* search responses, the final event of research_stream carries the same
\* hypotheses by category, the same validated findings per category (same
\* hypotheses, evidence and source URLs) and the same summary as the response
\* of research.
C37_StreamGivesWhatResearchGives ==
    (run_no = 2 /\ response.kind = "normal" /\ first_run.kind = "normal") =>
        /\ response.hypotheses = first_run.hypotheses
        /\ FindingCores(response.validated_hypotheses) = FindingCores(first_run.validated)
        /\ response.summary = first_run.summary

----------------------------------------------------------------------------
(* The waits of openai_web_search (checked under SpecSearch) *)

RECURSIVE SumOf(_)
SumOf(seq) == IF seq = <<>> THEN 0 ELSE Head(seq) + SumOf(Tail(seq))

\* C38: within one openai_web_search invocation the waits before successive
\* rate-limit retries are 2s, then 4s, then 8s, starting from 2s at the first
\* rate-limit failure, whether or not an earlier attempt was spent on a
\* temperature rejection; the total wait never exceeds 14s.
C38_WaitsAreTwoFourEight ==
    /\ Len(waits) <= max_retries
    /\ \A k \in 1..Len(waits) : waits[k] = 2 ^ k
    /\ SumOf(waits) <= 14

----------------------------------------------------------------------------
(* The source of a validated finding (checked under SpecProcess) *)

\* C39: every validated finding, in either entry point, carries a non-empty
\* source URL, so every summary entry built from it has a non-empty
\* source_urls list, also when the accepted evidence is the analysis
\* pseudo-source of a search whose response had prose and no citation URL.
C39_FindingsCarryASource ==
    /\ \A c \in CatSet : \A i \in 1..Len(validated[c]) :
          validated[c][i].source \notin {NoUrl, EmptyUrl}
    /\ \A k \in SummaryKeys : \A i \in 1..Len(build_summary(validated)[k]) :
          build_summary(validated)[k][i].source_urls # <<>>

----------------------------------------------------------------------------
(* The end of a streaming run (checked under SpecMetrics) *)

\* A step leaves no ended run as the fallback and changes no ended run's metrics.
EndedRunStepOk ==
    \A r \in Runs :
        /\ m_pc'[r] = "done" => fallback_metrics' # r
        /\ m_pc[r] = "done" => run_metrics'[r] = run_metrics[r]

\* C40: when a streaming run ends on any path (help or coaching short-circuit,
\* normal completion, or the stream abandoned or failing part-way), the run
\* context variable is reset and the process-wide fallback metrics reference no
\* longer points at that run's metrics, so no call made after the run has
\* ended can change the ended run's metrics or be attributed to it.
C40_EndedRunIsLetGo == [][EndedRunStepOk]_vars

====
